---- MODULE Spec2Model ----
(***************************************************************************)
(* A model of the JSON-recovery and response-validation layer of the       *)
(* IELTS scoring service: the request handlers of app/routers/v1.py and    *)
(* app/routers/v2.py and the decoders of app/utils/json_extractor.py.      *)
(*                                                                         *)
(* One behaviour of Spec is one inbound request: Init picks the handler    *)
(* and the request's inputs, every action is one upstream generation call  *)
(* together with all the code the handler runs up to its next upstream     *)
(* call or its response.  The upstream model is the environment: what it   *)
(* returns (or that it fails) is chosen with \E from bounded sets.         *)
(*                                                                         *)
(* Numbers with one decimal are kept as integers in tenths (9.0 is 90).    *)
(* A string is kept as its length, the number of characters strip() would  *)
(* remove, and a tag naming its content.                                   *)
(***************************************************************************)
EXTENDS Integers, Sequences, FiniteSets, TLC

VARIABLES
    response_text,  \* the text extract_json_from_generate_response works on
    epc,            \* the strategy the extraction is at
    extracted,      \* what the extraction returns
    handler,        \* the route the request is for
    pc,             \* position of the request: "start", "loop", "fallback", "done"
    transcription,  \* request.transcription (rewrite handlers)
    count,          \* request.count (vocabulary handlers)
    attempt,        \* loop variable of the retry loops
    calls,          \* upstream generation calls issued for this request
    upstreamFailed, \* an upstream generation call of this request has failed
    lastVerdict,    \* what the retry loop made of the latest attempt
    shortRetries,   \* upstream calls issued because the previous list was short
    allCorrected40, \* every upstream output so far had a "corrected" of length 40
    result,         \* the handler's `result` (the current candidate)
    decoded,        \* retry loops: what the latest upstream output decoded to
    decodedCall,    \* retry loops: the number of the call whose output that was
    everCorrected,  \* v2 correct_grammar: some candidate had a non-null "corrected"
    sent,           \* v2 correct_grammar: the arguments of the latest upstream call
    response,       \* what the handler returned or raised
    ollama_service, \* the OllamaService instance: client, available, error
    caller          \* the calls made on the instance and where the current one is

evars == <<response_text, epc, extracted>>
hvars == <<handler, pc, transcription, count, attempt, calls, upstreamFailed,
           lastVerdict, shortRetries, allCorrected40, result, decoded,
           decodedCall, everCorrected, sent, response>>
svars == <<ollama_service, caller>>
vars == <<evars, hvars, svars>>

(***************************************************************************)
(* Python values                                                           *)
(***************************************************************************)

\* a float: nan, or v tenths
Float(v) == [nan |-> FALSE, v |-> v]
NaN == [nan |-> TRUE, v |-> 0]

\* a < b on floats: every comparison with nan is false
FloatLt(a, b) == ~a.nan /\ ~b.nan /\ a.v < b.v

\* the builtin min(a, b): b if b < a, else a
PyMin(a, b) == IF FloatLt(b, a) THEN b ELSE a

\* the builtin max(a, b): b if b > a, else a
PyMax(a, b) == IF FloatLt(a, b) THEN b ELSE a

\* a JSON value found under a score key: k is its type, n its number (tenths)
SAbsent == [k |-> "absent", n |-> 0]
SNull == [k |-> "null", n |-> 0]
SStr == [k |-> "str", n |-> 0]
SNaN == [k |-> "nan", n |-> 0]
SNum(n) == [k |-> "num", n |-> n]
SNumStr(n) == [k |-> "numstr", n |-> n]

\* float(x): raises for None and for a non-numeric string
FloatRaises(x) == x.k \in {"null", "str"}
ToFloat(x) == IF x.k = "nan" THEN NaN ELSE Float(x.n)

(***************************************************************************)
(* The score schema                                                        *)
(***************************************************************************)

NumericKeys == {"bandScore", "pronunciationScore", "grammarScore",
                "vocabularyScore", "fluencyScore"}
ScoreKeys == NumericKeys \cup {"overallFeedback"}

\* the default of result.get(key, default), in tenths
ScoreDefault_m(key) == 65
ScoreDefault(key) ==
    IF key \in {"pronunciationScore", "vocabularyScore"} THEN 60 ELSE 65

\* result.get(key, default) for a numeric key
GetScore(d, key) == IF d[key].k = "absent" THEN SNum(ScoreDefault(key)) ELSE d[key]

\* clamp_score: max(0.0, min(9.0, float(score)))
clamp_score_m(score) == PyMin(Float(90), score)
clamp_score(score) == PyMax(Float(0), PyMin(Float(90), score))

(***************************************************************************)
(* extract_json_from_response: the decoder of the score handlers           *)
(*                                                                         *)
(* A response text is kept as what each of the decoder's three strategies  *)
(* finds in it: objMatch is the first span matching                        *)
(* \{[^{}]*"bandScore"[^{}]*\} and its json.loads, whole is json.loads of  *)
(* the text, fields[key] is the group matched by the key's pattern.        *)
(***************************************************************************)

EmptyDict == [key \in ScoreKeys |-> SAbsent]

\* values a model can give a score key in a JSON object
BandVals == {SAbsent, SNull, SStr, SNaN, SNumStr(75), SNum(-30), SNum(45), SNum(127)}
OtherVals == {SAbsent, SNum(-30), SNum(127)}
FeedbackVals == {SAbsent, SStr}

ScoreDicts ==
    { [key \in ScoreKeys |->
          IF key = "bandScore" THEN b
          ELSE IF key = "overallFeedback" THEN f
          ELSE o[key]] :
      b \in BandVals, f \in FeedbackVals,
      o \in [NumericKeys \ {"bandScore"} -> OtherVals] }

\* what the patterns "key"\s*:\s*([0-9.]+) can capture: no match, digits that
\* float() accepts (never negative: the class has no sign), or digits it
\* rejects such as "1.2.3"
NoField == [st |-> "nomatch", n |-> 0]
BadField == [st |-> "bad", n |-> 0]
OkField(n) == [st |-> "ok", n |-> n]
NoFields == [key \in ScoreKeys |-> NoField]

FieldMaps ==
    { [key \in ScoreKeys |->
          IF key = "bandScore" THEN b
          ELSE IF key = "overallFeedback" THEN f
          ELSE o[key]] :
      b \in {NoField, BadField, OkField(45), OkField(127)},
      f \in {NoField, OkField(0)},
      o \in [NumericKeys \ {"bandScore"} -> {NoField, OkField(127)}] }

NoMatch == [st |-> "nomatch", d |-> EmptyDict]
BadMatch == [st |-> "bad", d |-> EmptyDict]
DictMatch(d) == [st |-> "dict", d |-> d]
WholeFail == [st |-> "fail", d |-> EmptyDict]
WholeNonDict == [st |-> "nondict", d |-> EmptyDict]
WholeDict(d) == [st |-> "dict", d |-> d]

ScoreText(o, w, f) == [objMatch |-> o, whole |-> w, fields |-> f]

\* two objects that differ, for the texts on which several strategies apply
LowDict == [EmptyDict EXCEPT !["bandScore"] = SNum(-30)]
HighDict == [EmptyDict EXCEPT !["bandScore"] = SNum(127)]

\* The texts of the model.  A strategy is evaluated only when the ones before
\* it failed, so the components behind the first applicable one are left at
\* "nothing found", except in the last family.
ScoreTexts ==
    { ScoreText(DictMatch(d), WholeFail, NoFields) : d \in ScoreDicts }
    \cup { ScoreText(o, WholeDict(d), NoFields) :
           o \in {NoMatch, BadMatch}, d \in ScoreDicts }
    \cup { ScoreText(o, WholeNonDict, NoFields) : o \in {NoMatch, BadMatch} }
    \cup { ScoreText(o, WholeFail, f) : o \in {NoMatch, BadMatch}, f \in FieldMaps }
    \cup { ScoreText(o, w, f) :
           o \in {BadMatch, DictMatch(LowDict)},
           w \in {WholeFail, WholeDict(HighDict)},
           f \in {NoFields, [NoFields EXCEPT !["bandScore"] = OkField(45)]} }

\* the regex fallback: float(match.group(1)) of every matched numeric key
FieldsRaise(f) == \E key \in NumericKeys : f[key].st = "bad"
FieldsDict(f) ==
    [key \in ScoreKeys |->
        IF f[key].st = "nomatch" THEN SAbsent
        ELSE IF key = "overallFeedback" THEN SStr
        ELSE SNum(f[key].n)]

Extraction(raised, isdict, d, strategy) ==
    [raised |-> raised, isdict |-> isdict, d |-> d, strategy |-> strategy]

extract_json_from_response_m(text) ==
    IF text.whole.st # "fail"
    THEN Extraction(FALSE, text.whole.st = "dict", text.whole.d, "whole")
    ELSE Extraction(FALSE, TRUE, EmptyDict, "fields")
extract_json_from_response(text) ==
    IF text.objMatch.st = "dict"
    THEN Extraction(FALSE, TRUE, text.objMatch.d, "object")
    ELSE IF text.whole.st # "fail"
    THEN Extraction(FALSE, text.whole.st = "dict", text.whole.d, "whole")
    ELSE IF FieldsRaise(text.fields)
    THEN Extraction(TRUE, TRUE, EmptyDict, "fields")
    ELSE Extraction(FALSE, TRUE, FieldsDict(text.fields), "fields")

(***************************************************************************)
(* Text values of a candidate                                              *)
(***************************************************************************)

\* a JSON value found under a text key; a string has a length, the number
\* of leading and trailing blanks among them (pad), and a content tag
VAbsent == [k |-> "absent", len |-> 0, pad |-> 0, tag |-> ""]
VNull == [k |-> "null", len |-> 0, pad |-> 0, tag |-> ""]
VNum == [k |-> "num", len |-> 0, pad |-> 0, tag |-> ""]
VStr(len, pad, tag) == [k |-> "str", len |-> len, pad |-> pad, tag |-> tag]

\* min and max of two integers
PyMinInt(a, b) == IF a <= b THEN a ELSE b
PyMaxInt(a, b) == IF a >= b THEN a ELSE b

\* the keyword arguments of google_ai_service.generate
Sent(temperature, max_output_tokens) ==
    [temperature |-> temperature, max_output_tokens |-> max_output_tokens]
NoCall == Sent(0, 0)

\* result = extract_json_from_generate_response(response_text): the assignment
\* in the loop body replaces the previous candidate whole
Replaces_m(prev, cand) == IF prev.shape = "none" THEN cand ELSE prev
Replaces(prev, cand) == cand

\* bool(v): None, "" and an absent key (.get gives None) are false
Truthy(v) == v.k = "num" \/ (v.k = "str" /\ v.len > 0)
IsStr(v) == v.k = "str"
\* key in result
Present(v) == v.k # "absent"
\* v.strip()
Strip(v) == [v EXCEPT !.len = v.len - v.pad, !.pad = 0]
\* str(v)
PyStr(v) ==
    IF v.k = "str" THEN v
    ELSE IF v.k = "num" THEN VStr(1, 0, "number")
    ELSE VStr(4, 0, "None")

\* the corrections value: absent, null, a non-list scalar, or a list of items.
\* An item is "full" (a dict with original, corrected and reason, all strings),
\* "fullnonstr" (the three keys, a value that is no string), "partial" (a dict
\* lacking one of the keys) or "nondict".
CAbsent == [k |-> "absent", items |-> <<>>]
CNull == [k |-> "null", items |-> <<>>]
CNum == [k |-> "num", items |-> <<>>]
CList(items) == [k |-> "list", items |-> items]

\* one decoded candidate of a rewrite handler
Cand(original, corrected, improved, corrections, explanation) ==
    [shape |-> "dict", original |-> original, corrected |-> corrected,
     improved |-> improved, corrections |-> corrections,
     explanation |-> explanation]
NoCand == [shape |-> "none", original |-> VAbsent, corrected |-> VAbsent,
           improved |-> VAbsent, corrections |-> CAbsent, explanation |-> VAbsent]
\* a decoded value that is no object (json.loads gave a list or null)
NonDictCand == [NoCand EXCEPT !.shape = "nondict"]

(***************************************************************************)
(* Responses                                                               *)
(***************************************************************************)

NoScores == [key \in NumericKeys |-> Float(0)]

NoResponse ==
    [status |-> "none", code |-> 0, detail |-> "", keys |-> {},
     scores |-> NoScores, feedback |-> SAbsent,
     original |-> VAbsent, corrected |-> VAbsent, improved |-> VAbsent,
     corrections |-> <<>>, explanation |-> VAbsent,
     vocabulary |-> <<>>, answer |-> "none"]

HTTPError(code, detail) ==
    [NoResponse EXCEPT !.status = "error", !.code = code, !.detail = detail]

\* the provider error the services raise (an HTTPException)
UpstreamError == HTTPError(503, "upstream")

(***************************************************************************)
(* score and chat (v1 and v2): one upstream call, then defaults and clamp  *)
(***************************************************************************)

ScoreHandlers == {"v1_score", "v1_chat", "v2_score", "v2_chat"}

\* float(result.get(key, default)) raises for some key, or result has no .get
ScoreRaises(ex) ==
    \/ ex.raised
    \/ ~ex.isdict
    \/ \E key \in NumericKeys : FloatRaises(GetScore(ex.d, key))

ScoreBody(ex) ==
    [NoResponse EXCEPT
        !.status = "ok", !.code = 200,
        !.keys = ScoreKeys,
        !.scores = [key \in NumericKeys |-> clamp_score(ToFloat(GetScore(ex.d, key)))],
        !.feedback = IF ex.d["overallFeedback"].k = "absent"
                     THEN [k |-> "default", n |-> 0]
                     ELSE ex.d["overallFeedback"]]

ScoreResponse(ex) ==
    IF ScoreRaises(ex) THEN HTTPError(500, "exception") ELSE ScoreBody(ex)

Score(h) ==
    /\ handler = h
    /\ pc = "start"
    /\ calls' = calls + 1
    /\ pc' = "done"
    /\ \/ /\ upstreamFailed' = TRUE
          /\ response' = UpstreamError
          /\ UNCHANGED result
       \/ \E text \in ScoreTexts :
            /\ upstreamFailed' = FALSE
            /\ result' = extract_json_from_response(text)
            /\ response' = ScoreResponse(extract_json_from_response(text))
    /\ UNCHANGED <<evars, svars>>
    /\ UNCHANGED <<decoded, decodedCall, everCorrected, sent>>
    /\ UNCHANGED <<handler, transcription, count, attempt, lastVerdict,
                   shortRetries, allCorrected40>>

(***************************************************************************)
(* Requests and candidates of the rewrite handlers                         *)
(***************************************************************************)

\* request.transcription: empty, blank, short, long with blanks around, and
\* two that are long enough to move the output-token budget
Transcriptions ==
    {VStr(0, 0, "t"), VStr(2, 2, "t"), VStr(20, 0, "t"), VStr(202, 2, "t"),
     VStr(1000, 0, "t"), VStr(3000, 0, "t")}

\* what a model puts under "original": the echo, a truncated echo, other things
OrigVals ==
    {VAbsent, VNum, VStr(200, 0, "t"), VStr(160, 0, "t"), VStr(40, 0, "t")}

\* what a model puts under "corrected" / "improved"; the last one is blank
RewriteVals ==
    {VAbsent, VNull, VNum, VStr(40, 0, "c"), VStr(98, 0, "c"),
     VStr(120, 0, "c"), VStr(122, 4, "c"), VStr(200, 0, "t"),
     VStr(2, 2, "c")}

\* an element of "corrections": a dict with the keys original, corrected and
\* reason as strings ("full"), with the three keys and a value that is no
\* string ("fullnonstr"), a dict that lacks one of them ("partial"), or a
\* value that is no dict ("nondict")
CorrectionKinds == {"full", "fullnonstr", "partial", "nondict"}

\* what a model puts under "corrections": nothing, or one well-formed element
CorrectionsVals == {CAbsent, CList(<<"full">>)}

\* explanations: none, or one that says "no correction"
ExplVals == {VAbsent, VStr(10, 0, "nocorr")}

\* candidates whose one "corrections" element lacks a key
PartialCandidates ==
    { Cand(o, c, VAbsent, CList(<<"partial">>), VStr(10, 0, "nocorr")) :
      o \in {VStr(40, 0, "t"), VStr(200, 0, "t")},
      c \in {VStr(98, 0, "c"), VStr(120, 0, "c")} }

CGCandidates ==
    { Cand(o, c, VAbsent, cs, e) :
      o \in OrigVals, c \in RewriteVals, cs \in CorrectionsVals, e \in ExplVals }
    \cup PartialCandidates
    \cup {NonDictCand}

(***************************************************************************)
(* v2 correct_grammar                                                      *)
(***************************************************************************)

max_retries == 2

\* the explanation texts the handler writes
Expl(tag) == VStr(10, 0, tag)
\* "no correction" in explanation.lower()
ContainsNoCorrection(e) == e.tag \in {"nocorr", "none_needed"}

\* if not request.transcription or request.transcription.strip() == ""
EmptyTranscription_m(t) == t.len = 0
EmptyTranscription(t) == Strip(t).len = 0

\* min_tokens, and max_tokens = min(max(min_tokens, int(input_length * 3.5)), 8192)
min_tokens == 3072
max_tokens(input_length) ==
    PyMinInt(PyMaxInt(min_tokens, (input_length * 35) \div 10), 8192)

\* temperature=0.2 if attempt == 0 else 0.3, in tenths
Temperature_m(att) == 2
Temperature(att) == IF att = 0 THEN 2 ELSE 3

\* One pass of the retry loop body after the upstream call returned cand:
\* "complete" breaks, "incomplete" continues while attempts remain, and
\* "exception" is what the loop's except clause catches (.get on a non-object,
\* len() of a number, len(None) in the message of line 739).
CG2Verdict(cand, T, att) ==
    IF cand.shape = "nondict" THEN "exception"
    ELSE IF Truthy(cand.corrected)
    THEN IF ~IsStr(cand.corrected) THEN "exception"
         ELSE IF 10 * cand.corrected.len >= 6 * T.len THEN "complete"
         ELSE "incomplete"
    ELSE IF att < max_retries /\ cand.corrected.k = "null" THEN "exception"
    ELSE "incomplete"

\* VALIDATION STEP 1
MissingFields_m(r) ==
    {f \in {"original", "corrected"} : ~Present(r[f]) \/ r[f].k = "null"}
MissingFields(r) == {f \in {"original", "corrected"} : ~Present(r[f])}

\* VALIDATION STEP 2
Step2(r, T) ==
    [r EXCEPT
        !.original =
            IF ~Truthy(r.original) \/ ~IsStr(r.original) THEN T
            ELSE IF 10 * Strip(r.original).len < 8 * T.len THEN T
            ELSE Strip(r.original),
        !.corrected =
            IF ~Truthy(r.corrected) \/ ~IsStr(r.corrected) THEN T
            ELSE Strip(r.corrected)]

\* VALIDATION STEP 3: keep the dict items that have the three keys, as strings
IsFullItem(item) == item \in {"full", "fullnonstr"}
RECURSIVE ValidCorrections(_)
ValidCorrections(items) ==
    IF items = <<>> THEN <<>>
    ELSE IF IsFullItem(Head(items))
    THEN <<"full">> \o ValidCorrections(Tail(items))
    ELSE ValidCorrections(Tail(items))

Step3(r) ==
    [r EXCEPT
        !.corrections =
            IF r.corrections.k # "list" THEN CList(<<>>)
            ELSE CList(ValidCorrections(r.corrections.items))]

\* VALIDATION STEP 4
Step4(r) ==
    LET n == Len(r.corrections.items)
        changed == r.original # r.corrected
    IN  [r EXCEPT
            !.explanation =
                IF ~IsStr(r.explanation)
                THEN IF n > 0 THEN Expl("made_n_clarity")
                     ELSE IF changed THEN Expl("minor_naturalness")
                     ELSE Expl("none_needed")
                ELSE IF Strip(r.explanation).len = 0
                THEN IF n > 0 THEN Expl("made_n_grammar")
                     ELSE IF changed THEN Expl("minor_grammar")
                     ELSE Expl("none_needed")
                ELSE Strip(r.explanation)]

Validated(r, T) == Step4(Step3(Step2(r, T)))

\* VALIDATION STEP 5: if original_len > 30 and corrected_len < original_len * 0.6
NeedsFallback_m(r) == FALSE
NeedsFallback(r) ==
    r.original.len > 30 /\ 10 * r.corrected.len < 6 * r.original.len

\* "Even fallback failed, return original as corrected"
Degrade_m(r, T) ==
    [r EXCEPT !.corrections = CList(<<>>), !.explanation = Expl("unable")]
Degrade(r, T) ==
    [r EXCEPT !.corrected = T, !.corrections = CList(<<>>),
              !.explanation = Expl("unable")]

\* fallback_result.get("corrected") and len(...) >= original_len * 0.6;
\* a non-object or a number raises inside the try and is caught by its except
FallbackAdopted(fc, original_len) ==
    /\ fc.shape = "dict"
    /\ Truthy(fc.corrected)
    /\ IsStr(fc.corrected)
    /\ 10 * fc.corrected.len >= 6 * original_len

\* VALIDATION STEP 6 reads result["corrections"], result["explanation"] and
\* result["original"] without .get: a key the adopted fallback lacks raises
Step6Raises(r) ==
    \/ r.corrections.k # "list"
    \/ Len(r.corrections.items) > 0 /\ ~IsStr(r.explanation)
    \/ ~Present(r.original)

Step6_m(r) ==
    IF r.original = r.corrected /\ Len(r.corrections.items) > 0
    THEN [r EXCEPT !.corrections = CList(<<>>),
                   !.explanation = Expl("none_needed")]
    ELSE r
Step6(r) ==
    LET n == Len(r.corrections.items)
        r1 == IF n > 0 /\ ContainsNoCorrection(r.explanation)
              THEN [r EXCEPT !.explanation = Expl("made_n_style")]
              ELSE r
    IN  IF r1.original = r1.corrected /\ n > 0
        THEN [r1 EXCEPT !.corrections = CList(<<>>),
                        !.explanation = Expl("none_needed")]
        ELSE r1

\* FINAL SAFETY CHECK
FinalResult_m(r, T) ==
    [original |-> IF Present(r.original) THEN PyStr(r.original) ELSE T,
     corrected |-> IF Present(r.corrected) THEN PyStr(r.corrected) ELSE T,
     corrections |-> IF r.corrections.k = "list" THEN r.corrections.items
                     ELSE <<>>,
     explanation |-> IF Truthy(r.explanation) THEN PyStr(r.explanation)
                     ELSE Expl("completed")]
FinalResult(r, T) ==
    LET original == IF Present(r.original) THEN PyStr(r.original) ELSE T
        corrected == IF Present(r.corrected) THEN PyStr(r.corrected) ELSE T
        corrections == IF r.corrections.k = "list" THEN r.corrections.items
                       ELSE <<>>
        explanation == IF Truthy(r.explanation) THEN PyStr(r.explanation)
                       ELSE Expl("completed")
    IN  [original |-> IF original.len = 0 THEN T ELSE original,
         corrected |-> IF corrected.len = 0 THEN T ELSE corrected,
         corrections |-> corrections,
         explanation |-> explanation]

\* GrammarCorrectionResponse(**final_result): corrections is List[dict]
GrammarBody(f) ==
    IF \E i \in 1..Len(f.corrections) : f.corrections[i] = "nondict"
    THEN HTTPError(500, "exception")
    ELSE [NoResponse EXCEPT
            !.status = "ok", !.code = 200,
            !.keys = {"original", "corrected", "corrections", "explanation"},
            !.original = f.original, !.corrected = f.corrected,
            !.corrections = f.corrections, !.explanation = f.explanation]

\* steps 6 and after, on the candidate r that survived step 5
Finish(r, T) ==
    IF Step6Raises(r) THEN HTTPError(500, "exception")
    ELSE GrammarBody(FinalResult(Step6(r), T))

\* request validation: 400 before any upstream call
CG2Reject ==
    /\ handler = "v2_correct_grammar"
    /\ pc = "start"
    /\ EmptyTranscription(transcription)
    /\ pc' = "done"
    /\ response' = HTTPError(400, "empty_transcription")
    /\ UNCHANGED <<evars, svars>>
    /\ UNCHANGED <<decoded, decodedCall, everCorrected, sent>>
    /\ UNCHANGED <<handler, transcription, count, attempt, calls,
                   upstreamFailed, lastVerdict, shortRetries, allCorrected40,
                   result>>

\* the code after the retry loop, up to the fallback call or the response
CG2AfterLoop(r, T) ==
    IF MissingFields(r) # {}
    THEN [pc |-> "done", result |-> r, response |-> HTTPError(500, "missing_fields")]
    ELSE IF NeedsFallback(Validated(r, T))
    THEN [pc |-> "fallback", result |-> Validated(r, T), response |-> NoResponse]
    ELSE [pc |-> "done", result |-> Validated(r, T),
          response |-> Finish(Validated(r, T), T)]

\* the loop goes round again: the candidate was not judged complete (or the
\* except clause caught something) and attempt < max_retries
CG2Retries_m(verdict, att) == verdict # "complete" /\ att < max_retries - 1
CG2Retries(verdict, att) == verdict # "complete" /\ att < max_retries

\* the handlers whose retry loop wraps the upstream call in try/except
CatchesUpstreamFailure_m(h) ==
    h \in {"v2_correct_grammar", "v2_generate_vocabulary"}
CatchesUpstreamFailure(h) == h = "v2_correct_grammar"

\* the candidate has a "corrected" that is not null
HasCorrected(cand) == cand.corrected.k \notin {"absent", "null"}

\* the "corrected" of the scenario: 40 characters
IsLen40(cand) == IsStr(cand.corrected) /\ cand.corrected.len = 40

\* one iteration of the retry loop: the upstream call, the decoded candidate,
\* the quick validation, and, when the loop ends here, the code after it
CG2Attempt ==
    /\ handler = "v2_correct_grammar"
    /\ pc \in {"start", "loop"}
    /\ ~EmptyTranscription(transcription)
    /\ calls' = calls + 1
    /\ sent' = Sent(Temperature(attempt), max_tokens(Strip(transcription).len))
    /\ LET T == Strip(transcription) IN
       \/ \* the upstream call raises
          /\ upstreamFailed' = TRUE
          /\ lastVerdict' = "exception"
          /\ allCorrected40' = FALSE
          /\ UNCHANGED <<result, decoded, decodedCall, everCorrected, shortRetries>>
          /\ IF CatchesUpstreamFailure(handler) /\ CG2Retries("exception", attempt)
             THEN /\ attempt' = attempt + 1
                  /\ pc' = "loop"
                  /\ UNCHANGED response
             ELSE /\ pc' = "done"
                  /\ response' = UpstreamError
                  /\ UNCHANGED attempt
       \/ \E cand \in CGCandidates :
            LET r == Replaces(result, cand)
                verdict == CG2Verdict(r, T, attempt)
                after == CG2AfterLoop(r, T)
            IN  /\ UNCHANGED <<upstreamFailed, shortRetries>>
                /\ decoded' = cand
                /\ decodedCall' = calls + 1
                /\ everCorrected' = (everCorrected \/ HasCorrected(cand))
                /\ lastVerdict' = verdict
                /\ allCorrected40' = (allCorrected40 /\ IsLen40(cand))
                /\ IF CG2Retries(verdict, attempt)
                   THEN /\ attempt' = attempt + 1
                        /\ pc' = "loop"
                        /\ result' = r
                        /\ UNCHANGED response
                   ELSE IF verdict = "exception"
                   THEN /\ pc' = "done"
                        /\ result' = r
                        /\ response' = HTTPError(500, "exception")
                        /\ UNCHANGED attempt
                   ELSE /\ pc' = after.pc
                        /\ result' = after.result
                        /\ response' = after.response
                        /\ UNCHANGED attempt
    /\ UNCHANGED <<evars, svars>>
    /\ UNCHANGED <<handler, transcription, count>>

\* VALIDATION STEP 5's extra call with the simplified prompt
CG2Fallback ==
    /\ handler = "v2_correct_grammar"
    /\ pc = "fallback"
    /\ calls' = calls + 1
    /\ sent' = Sent(1, max_tokens(Strip(transcription).len))
    /\ pc' = "done"
    /\ LET T == Strip(transcription) IN
       \/ /\ upstreamFailed' = TRUE
          /\ lastVerdict' = "exception"
          /\ allCorrected40' = FALSE
          /\ result' = Degrade(result, T)
          /\ UNCHANGED <<decoded, decodedCall, everCorrected>>
          /\ response' = Finish(Degrade(result, T), T)
       \/ \E fc \in CGCandidates :
            LET adopted == FallbackAdopted(fc, result.original.len)
                r == IF adopted THEN fc ELSE Degrade(result, T)
            IN  /\ UNCHANGED upstreamFailed
                /\ decoded' = fc
                /\ decodedCall' = calls + 1
                /\ everCorrected' = (everCorrected \/ HasCorrected(fc))
                /\ lastVerdict' = IF adopted THEN "adopted" ELSE "degraded"
                /\ allCorrected40' = (allCorrected40 /\ IsLen40(fc))
                /\ result' = r
                /\ response' = Finish(r, T)
    /\ UNCHANGED <<evars, svars>>
    /\ UNCHANGED <<handler, transcription, count, attempt, shortRetries>>

(***************************************************************************)
(* v1 correct_grammar, and improve_sentence (v1 and v2): one upstream call *)
(***************************************************************************)

ImproveHandlers == {"v1_improve_sentence", "v2_improve_sentence"}
RewriteHandlers == ImproveHandlers \cup {"v1_correct_grammar", "v2_correct_grammar"}

ImproveCandidates ==
    { Cand(o, VAbsent, i, CAbsent, e) :
      o \in OrigVals, i \in RewriteVals, e \in ExplVals }
    \cup {NonDictCand}

\* a str field of a response model: a number passes only where the installed
\* pydantic coerces it (lax), None never does
ModelStr(v, lax) == v.k = "str" \/ (lax /\ v.k = "num")
\* an Optional[str] field
ModelOptStr(v, lax) == v.k \in {"absent", "null"} \/ ModelStr(v, lax)
\* an Optional[List[dict]] field
ModelOptDicts(c) ==
    \/ c.k \in {"absent", "null"}
    \/ c.k = "list" /\ \A i \in 1..Len(c.items) : c.items[i] # "nondict"

\* v1 correct_grammar after the upstream call returned cand
CG1Response(cand, lax) ==
    IF cand.shape = "nondict" THEN HTTPError(500, "exception")
    ELSE IF MissingFields(cand) # {} THEN HTTPError(500, "missing_fields")
    ELSE IF ~(/\ ModelStr(cand.original, lax)
              /\ ModelStr(cand.corrected, lax)
              /\ ModelOptDicts(cand.corrections)
              /\ ModelOptStr(cand.explanation, lax))
    THEN HTTPError(500, "exception")
    ELSE [NoResponse EXCEPT
            !.status = "ok", !.code = 200,
            !.keys = {"original", "corrected", "corrections", "explanation"},
            !.original = PyStr(cand.original),
            !.corrected = PyStr(cand.corrected),
            !.corrections = cand.corrections.items,
            !.explanation = cand.explanation]

CG1 ==
    /\ handler = "v1_correct_grammar"
    /\ pc = "start"
    /\ calls' = calls + 1
    /\ pc' = "done"
    /\ \/ /\ upstreamFailed' = TRUE
          /\ lastVerdict' = "exception"
          /\ response' = UpstreamError
          /\ UNCHANGED result
       \/ \E cand \in CGCandidates, lax \in BOOLEAN :
            /\ UNCHANGED <<upstreamFailed, lastVerdict>>
            /\ result' = cand
            /\ response' = CG1Response(cand, lax)
    /\ UNCHANGED <<evars, svars>>
    /\ UNCHANGED <<decoded, decodedCall, everCorrected, sent>>
    /\ UNCHANGED <<handler, transcription, count, attempt, shortRetries,
                   allCorrected40>>

\* if original_length > 100 and improved_length < original_length * 0.5
ImproveIncomplete_m(cand) ==
    cand.original.len > 100 /\ 10 * cand.improved.len < 4 * cand.original.len
ImproveIncomplete(cand) ==
    cand.original.len > 100 /\ 10 * cand.improved.len < 5 * cand.original.len

ImproveResponse(cand, lax) ==
    IF cand.shape = "nondict" THEN HTTPError(500, "exception")
    ELSE IF {f \in {"original", "improved"} : ~Present(cand[f])} # {}
    THEN HTTPError(500, "missing_fields")
    \* len() of a number or of None
    ELSE IF ~IsStr(cand.original) \/ ~IsStr(cand.improved)
    THEN HTTPError(500, "exception")
    ELSE IF ImproveIncomplete(cand) THEN HTTPError(500, "incomplete_lengths")
    ELSE IF ~ModelOptStr(cand.explanation, lax) THEN HTTPError(500, "exception")
    ELSE [NoResponse EXCEPT
            !.status = "ok", !.code = 200,
            !.keys = {"original", "improved", "improvements", "explanation",
                      "vocabularySuggestions", "structureSuggestions"},
            !.original = cand.original,
            !.improved = cand.improved,
            !.explanation = cand.explanation]

Improve(h) ==
    /\ handler = h
    /\ pc = "start"
    /\ calls' = calls + 1
    /\ pc' = "done"
    /\ \/ /\ upstreamFailed' = TRUE
          /\ lastVerdict' = "exception"
          /\ response' = UpstreamError
          /\ UNCHANGED result
       \/ \E cand \in ImproveCandidates, lax \in BOOLEAN :
            /\ UNCHANGED <<upstreamFailed, lastVerdict>>
            /\ result' = cand
            /\ response' = ImproveResponse(cand, lax)
    /\ UNCHANGED <<evars, svars>>
    /\ UNCHANGED <<decoded, decodedCall, everCorrected, sent>>
    /\ UNCHANGED <<handler, transcription, count, attempt, shortRetries,
                   allCorrected40>>

(***************************************************************************)
(* generate_vocabulary (v1 and v2)                                         *)
(***************************************************************************)

MaxCount == 2
MaxItems == 2

\* a vocabulary item: "ok" (word, definition and example, all strings),
\* "badtype" (the three keys, a value the model rejects), "nokeys"
ItemKinds == {"ok", "badtype", "nokeys"}
ItemLists == UNION {[1..m -> ItemKinds] : m \in 0..MaxItems}

\* a decoded candidate: an object (its "vocabulary" value, and whether the
\* object itself has the keys of an item: top), a bare list, or a scalar
VCand(shape, vocabulary, top, list) ==
    [shape |-> shape, vocabulary |-> vocabulary, top |-> top, list |-> list]
NoVCand == VCand("none", CAbsent, "none", <<>>)

VocabCandidates ==
    { VCand("dict", v, top, <<>>) :
      v \in {CAbsent, CNull} \cup {CList(l) : l \in ItemLists},
      top \in {"none", "ok", "badtype"} }
    \cup { VCand("list", CAbsent, "none", l) : l \in ItemLists }
    \cup { VCand("scalar", CAbsent, "none", <<>>) }

\* vocabulary_count = request.count or 10
VocabularyCount(c) == IF c = 0 THEN 10 ELSE c

\* "vocabulary" in result and isinstance(result["vocabulary"], list)
HasVocabularyList(cand) == cand.shape = "dict" /\ cand.vocabulary.k = "list"

HasItemKeys(item) == item \in {"ok", "badtype"}

\* VocabularyResponse(**result)
VocabularyBody_m(v) ==
    IF v.k = "list" /\ Len(v.items) > 0 /\ \A i \in 1..Len(v.items) : v.items[i] = "ok"
    THEN [NoResponse EXCEPT !.status = "ok", !.code = 200,
                            !.keys = {"vocabulary"}, !.vocabulary = v.items]
    ELSE HTTPError(500, "exception")
VocabularyBody(v) ==
    IF v.k = "list" /\ \A i \in 1..Len(v.items) : v.items[i] = "ok"
    THEN [NoResponse EXCEPT !.status = "ok", !.code = 200,
                            !.keys = {"vocabulary"}, !.vocabulary = v.items]
    ELSE HTTPError(500, "exception")

\* v2: the code after the retry loop
Voc2AfterLoop_m(cand) ==
    IF cand.shape = "dict" /\ Present(cand.vocabulary)
    THEN VocabularyBody(cand.vocabulary)
    ELSE IF cand.shape = "list" /\ Len(cand.list) > 0 /\ HasItemKeys(cand.list[1])
    THEN VocabularyBody(CList(cand.list))
    ELSE HTTPError(500, "missing_vocabulary")
Voc2AfterLoop(cand) ==
    IF cand.shape = "dict" /\ Present(cand.vocabulary)
    THEN VocabularyBody(cand.vocabulary)
    ELSE IF cand.shape = "dict" /\ cand.top # "none"
    THEN VocabularyBody(CList(<<cand.top>>))
    ELSE IF cand.shape = "list" /\ Len(cand.list) > 0
    THEN IF HasItemKeys(cand.list[1])
         THEN VocabularyBody(CList(cand.list))
         ELSE HTTPError(500, "missing_vocabulary")
    ELSE HTTPError(500, "missing_vocabulary")

\* does the loop go round again after this candidate
Voc2Retries_m(cand, vc, att) ==
    /\ ~(HasVocabularyList(cand) /\ Len(cand.vocabulary.items) >= vc)
    /\ att <= max_retries
Voc2Retries(cand, vc, att) ==
    /\ ~(HasVocabularyList(cand) /\ Len(cand.vocabulary.items) >= vc)
    /\ att < max_retries

Voc2Verdict(cand, vc) ==
    IF ~HasVocabularyList(cand) THEN "missing"
    ELSE IF Len(cand.vocabulary.items) >= vc THEN "complete"
    ELSE "short"

\* one iteration of the retry loop, and the code after it when it ends here
Voc2Attempt ==
    /\ handler = "v2_generate_vocabulary"
    /\ pc \in {"start", "loop"}
    /\ calls' = calls + 1
    /\ shortRetries' = IF lastVerdict = "short" THEN shortRetries + 1
                       ELSE shortRetries
    /\ \/ \* the upstream call raises: nothing in this loop catches it
          /\ upstreamFailed' = TRUE
          /\ lastVerdict' = "exception"
          /\ UNCHANGED <<result, decoded, decodedCall>>
          /\ IF CatchesUpstreamFailure(handler) /\ attempt < max_retries
             THEN /\ attempt' = attempt + 1
                  /\ pc' = "loop"
                  /\ UNCHANGED response
             ELSE /\ pc' = "done"
                  /\ response' = UpstreamError
                  /\ UNCHANGED attempt
       \/ \E cand \in VocabCandidates :
          LET r == Replaces(result, cand) IN
            /\ UNCHANGED upstreamFailed
            /\ result' = r
            /\ decoded' = cand
            /\ decodedCall' = calls + 1
            /\ IF r.shape = "scalar"
               THEN \* "vocabulary" in result raises
                    /\ lastVerdict' = "exception"
                    /\ pc' = "done"
                    /\ response' = HTTPError(500, "exception")
                    /\ UNCHANGED attempt
               ELSE /\ lastVerdict' = Voc2Verdict(r, VocabularyCount(count))
                    /\ IF Voc2Retries(r, VocabularyCount(count), attempt)
                       THEN /\ attempt' = attempt + 1
                            /\ pc' = "loop"
                            /\ UNCHANGED response
                       ELSE /\ pc' = "done"
                            /\ response' = Voc2AfterLoop(r)
                            /\ UNCHANGED attempt
    /\ UNCHANGED <<evars, svars>>
    /\ UNCHANGED <<everCorrected, sent>>
    /\ UNCHANGED <<handler, transcription, count, allCorrected40>>

Voc1Response(cand) ==
    IF cand.shape = "scalar" THEN HTTPError(500, "exception")
    ELSE IF cand.shape = "list" \/ ~Present(cand.vocabulary)
    THEN HTTPError(500, "missing_vocabulary")
    ELSE VocabularyBody(cand.vocabulary)

Voc1 ==
    /\ handler = "v1_generate_vocabulary"
    /\ pc = "start"
    /\ calls' = calls + 1
    /\ pc' = "done"
    /\ \/ /\ upstreamFailed' = TRUE
          /\ lastVerdict' = "exception"
          /\ response' = UpstreamError
          /\ UNCHANGED result
       \/ \E cand \in VocabCandidates :
            /\ UNCHANGED <<upstreamFailed, lastVerdict>>
            /\ result' = cand
            /\ response' = Voc1Response(cand)
    /\ UNCHANGED <<evars, svars>>
    /\ UNCHANGED <<decoded, decodedCall, everCorrected, sent>>
    /\ UNCHANGED <<handler, transcription, count, attempt, shortRetries,
                   allCorrected40>>

(***************************************************************************)
(* The handlers that check key presence only: generate_topics,             *)
(* generate_questions, generate_answers, generate_structures, generate     *)
(***************************************************************************)

KeyHandlers ==
    {"v1_generate_topics", "v2_generate_topics",
     "v1_generate_questions", "v2_generate_questions",
     "v1_generate_answers", "v2_generate_answers",
     "v1_generate_structures", "v2_generate_structures",
     "v1_generate", "v2_generate"}

AnswersHandlers == {"v1_generate_answers", "v2_generate_answers"}

\* the keys a candidate of the handler may carry ("extra": one the schema
\* does not name)
CandidateKeys(h) ==
    IF h \in {"v1_generate_topics", "v2_generate_topics"} THEN {"topics", "extra"}
    ELSE IF h \in {"v1_generate_questions", "v2_generate_questions"}
    THEN {"question", "sampleAnswer", "vocabulary", "structures", "extra"}
    ELSE IF h \in AnswersHandlers
    THEN {"answer", "sampleAnswer", "sample_answer", "vocabulary",
          "structures", "keyPoints", "extra"}
    ELSE IF h \in {"v1_generate_structures", "v2_generate_structures"}
    THEN {"structures", "extra"}
    ELSE {"content", "extra"}

\* a candidate: the keys it has, and whether its values fit the response model
KCand(shape, keys, valid) == [shape |-> shape, keys |-> keys, valid |-> valid]
NoKCand == KCand("none", {}, FALSE)

KeyCandidates(h) ==
    { KCand("dict", ks, v) : ks \in SUBSET CandidateKeys(h), v \in BOOLEAN }
    \cup {KCand("nondict", {}, FALSE)}

\* the synonym mapping of generate_answers: which key's value "answer" holds
AnswerSource_m(keys) ==
    IF "sample_answer" \in keys THEN "sample_answer"
    ELSE IF "sampleAnswer" \in keys THEN "sampleAnswer"
    ELSE IF "answer" \in keys THEN "answer"
    ELSE "none"
AnswerSource(keys) ==
    IF "answer" \in keys THEN "answer"
    ELSE IF "sampleAnswer" \in keys THEN "sampleAnswer"
    ELSE IF "sample_answer" \in keys THEN "sample_answer"
    ELSE "none"

Reconciled(h, keys) ==
    IF h \in AnswersHandlers /\ AnswerSource(keys) # "none"
    THEN keys \cup {"answer"}
    ELSE keys

RequiredKeys(h) ==
    IF h \in {"v1_generate_topics", "v2_generate_topics"} THEN {"topics"}
    ELSE IF h \in {"v1_generate_questions", "v2_generate_questions"}
    THEN {"question", "sampleAnswer", "vocabulary", "structures"}
    ELSE IF h = "v1_generate_answers" THEN {"answer", "vocabulary", "structures"}
    ELSE IF h = "v2_generate_answers" THEN {"answer"}
    ELSE IF h \in {"v1_generate_structures", "v2_generate_structures"}
    THEN {"structures"}
    ELSE {}

\* the keys of what the handler returns
ReturnedKeys_m(h, keys) == keys
ReturnedKeys(h, keys) ==
    IF h \in {"v1_generate", "v2_generate"} THEN keys
    ELSE IF h = "v2_generate_answers" THEN {"answer"}
    ELSE IF h = "v1_generate_answers"
    THEN {"answer", "vocabulary", "structures", "keyPoints"}
    ELSE RequiredKeys(h)

\* the handlers that build a response model from the candidate
BuildsModel(h) == h \notin {"v1_generate", "v2_generate", "v2_generate_answers"}

KeyResponse(h, cand) ==
    IF h \in {"v1_generate", "v2_generate"}
    THEN [NoResponse EXCEPT !.status = "ok", !.code = 200, !.keys = cand.keys]
    ELSE IF cand.shape = "nondict" THEN HTTPError(500, "exception")
    ELSE IF RequiredKeys(h) \ Reconciled(h, cand.keys) # {}
    THEN HTTPError(500, "missing_fields")
    ELSE IF BuildsModel(h) /\ ~cand.valid THEN HTTPError(500, "exception")
    ELSE [NoResponse EXCEPT
            !.status = "ok", !.code = 200,
            !.keys = ReturnedKeys(h, Reconciled(h, cand.keys)),
            !.answer = IF h \in AnswersHandlers THEN AnswerSource(cand.keys)
                       ELSE "none"]

KeyHandler(h) ==
    /\ handler = h
    /\ pc = "start"
    /\ calls' = calls + 1
    /\ pc' = "done"
    /\ \/ /\ upstreamFailed' = TRUE
          /\ lastVerdict' = "exception"
          /\ response' = UpstreamError
          /\ UNCHANGED result
       \/ \E cand \in KeyCandidates(h) :
            /\ UNCHANGED <<upstreamFailed, lastVerdict>>
            /\ result' = cand
            /\ response' = KeyResponse(h, cand)
    /\ UNCHANGED <<evars, svars>>
    /\ UNCHANGED <<decoded, decodedCall, everCorrected, sent>>
    /\ UNCHANGED <<handler, transcription, count, attempt, shortRetries,
                   allCorrected40>>

(***************************************************************************)
(* extract_json_from_generate_response                                     *)
(*                                                                         *)
(* A response text is a sequence of tokens; white space between tokens is  *)
(* left out, since json.loads and every regex of the function skip it.     *)
(*   "{" "}" ","   the characters                                          *)
(*   "F"           a ``` fence (with or without the json tag)              *)
(*   "x"           prose, not JSON                                         *)
(*   "n"           a number literal                                        *)
(*   "d"           an array nested deeper than the interpreter's recursion *)
(*                 limit: json.loads raises RecursionError on reaching it  *)
(*   "L"           a run of 600 characters of prose                        *)
(*   "m"           the member "a": 1                                       *)
(*   "b"           the member "bandScore": 7 (never inside a string)       *)
(*   "v"           the members "word", "definition", "example"             *)
(*   "k"           a key and its colon; a value follows                    *)
(*   "c" ... "'"   the member "content": "..."; the tokens in between are  *)
(*                 the characters of the string                            *)
(***************************************************************************)

RECURSIVE ParseValue(_, _), ParseMember(_, _), ParseMembers(_, _)

\* the index after the JSON value that starts at s[i]; 0 when there is none
\* (JSONDecodeError), -1 when the decoder raises RecursionError on the way
ParseValue(s, i) ==
    IF i > Len(s) THEN 0
    ELSE IF s[i] = "n" THEN i + 1
    ELSE IF s[i] = "d" THEN -1
    ELSE IF s[i] # "{" THEN 0
    ELSE IF i + 1 <= Len(s) /\ s[i + 1] = "}" THEN i + 2
    ELSE ParseMembers(s, i + 1)

ParseMember(s, i) ==
    IF i > Len(s) THEN 0
    ELSE IF s[i] \in {"m", "v", "b"} THEN i + 1
    ELSE IF s[i] = "k" THEN ParseValue(s, i + 1)
    ELSE IF s[i] = "c"
    THEN LET closing == {j \in (i + 1)..Len(s) : s[j] = "'"}
         IN  IF closing = {} THEN 0
             ELSE (CHOOSE j \in closing : \A l \in closing : j <= l) + 1
    ELSE 0

ParseMembers(s, i) ==
    LET j == ParseMember(s, i)
    IN  IF j = -1 THEN -1
        ELSE IF j = 0 \/ j > Len(s) THEN 0
        ELSE IF s[j] = "}" THEN j + 1
        ELSE IF s[j] = "," THEN ParseMembers(s, j + 1)
        ELSE 0

\* json.loads(s) returns a value
json_loads(s) == Len(s) > 0 /\ ParseValue(s, 1) = Len(s) + 1

\* json.loads(s) raises an exception that is not a JSONDecodeError
json_raises(s) == Len(s) > 0 /\ ParseValue(s, 1) = -1

IsDict(v) == Len(v) > 0 /\ v[1] = "{"

\* a dict whose only key is "content", with a string value
IsContentOnly(v) ==
    /\ Len(v) >= 4
    /\ v[1] = "{" /\ v[2] = "c" /\ v[Len(v) - 1] = "'" /\ v[Len(v)] = "}"
    /\ \A j \in 3..(Len(v) - 2) : v[j] # "'"

ContentOf(v) == SubSeq(v, 3, Len(v) - 2)

\* what a strategy makes of the text
Parse(strategy, kind, value, items) ==
    [ok |-> TRUE, raised |-> FALSE, strategy |-> strategy, kind |-> kind,
     value |-> value, items |-> items, preview |-> 0]
NoParse(strategy) ==
    [ok |-> FALSE, raised |-> FALSE, strategy |-> strategy, kind |-> "none",
     value |-> <<>>, items |-> <<>>, preview |-> 0]
\* the exception leaves the function: no except clause of it catches it
Raised(strategy) ==
    [ok |-> FALSE, raised |-> TRUE, strategy |-> strategy, kind |-> "raised",
     value |-> <<>>, items |-> <<>>, preview |-> 0]

KindOf(v) == IF IsDict(v) THEN "dict" ELSE "scalar"

\* json.loads(response_text), and the unwrapping of {"content": "<json dict>"}
WholeText_m(s) ==
    IF json_raises(s) THEN Raised("whole")
    ELSE IF ~json_loads(s) THEN NoParse("whole")
    ELSE IF Len(s) >= 5 /\ s[2] = "k" /\ s[3] = "{"
    THEN Parse("whole", "dict", SubSeq(s, 3, Len(s) - 1), <<>>)
    ELSE Parse("whole", KindOf(s), s, <<>>)
WholeText(s) ==
    IF json_raises(s) THEN Raised("whole")
    ELSE IF ~json_loads(s) THEN NoParse("whole")
    ELSE IF /\ IsContentOnly(s)
            /\ json_loads(ContentOf(s))
            /\ IsDict(ContentOf(s))
    THEN Parse("whole", "dict", ContentOf(s), <<>>)
    ELSE Parse("whole", KindOf(s), s, <<>>)

\* re.search(r'```(?:json)?\s*(\{.*?\})\s*```', ..., re.DOTALL): the
\* leftmost opening fence that has a match, and the shortest group from it
FenceEnds(s, p) ==
    {q \in (p + 2)..(Len(s) - 1) : s[q] = "}" /\ s[q + 1] = "F"}
FenceStarts(s) ==
    {p \in 1..Len(s) : /\ s[p] = "F"
                       /\ p + 1 <= Len(s)
                       /\ s[p + 1] = "{"
                       /\ FenceEnds(s, p) # {}}
FencedGroup(s) ==
    LET p == CHOOSE a \in FenceStarts(s) : \A b \in FenceStarts(s) : a <= b
        q == CHOOSE a \in FenceEnds(s, p) : \A b \in FenceEnds(s, p) : a <= b
    IN  SubSeq(s, p + 1, q)
FencedBlock(s) ==
    IF FenceStarts(s) = {} THEN NoParse("fenced")
    ELSE IF json_raises(FencedGroup(s)) THEN Raised("fenced")
    ELSE IF json_loads(FencedGroup(s))
    THEN Parse("fenced", "dict", FencedGroup(s), <<>>)
    ELSE NoParse("fenced")

\* response_text.find('{', start); 0 when there is none
FindBrace(s, start) ==
    LET at == {p \in start..Len(s) : s[p] = "{"}
    IN  IF at = {} THEN 0 ELSE CHOOSE p \in at : \A r \in at : p <= r

\* the index at which brace_count comes back to 0; 0 when it never does
CloseAt_m(s, i, brace_count) ==
    LET at == {p \in i..Len(s) : s[p] = "}"}
    IN  IF at = {} THEN 0 ELSE CHOOSE p \in at : \A r \in at : p <= r
RECURSIVE CloseAt(_, _, _)
CloseAt(s, i, brace_count) ==
    IF i > Len(s) THEN 0
    ELSE IF s[i] = "{" THEN CloseAt(s, i + 1, brace_count + 1)
    ELSE IF s[i] = "}"
    THEN IF brace_count = 1 THEN i ELSE CloseAt(s, i + 1, brace_count - 1)
    ELSE CloseAt(s, i + 1, brace_count)

\* re.sub(r',\s*}', '}', json_str)
RECURSIVE RemoveTrailingCommas(_)
RemoveTrailingCommas(s) ==
    IF s = <<>> THEN <<>>
    ELSE IF Len(s) >= 2 /\ s[1] = "," /\ s[2] = "}"
    THEN RemoveTrailingCommas(Tail(s))
    ELSE <<Head(s)>> \o RemoveTrailingCommas(Tail(s))

\* response_text[start_idx:i+1]: from the first opening brace to the brace
\* that brings brace_count back to 0; <<>> when there is no such span
scan_json_str(s) ==
    LET start_idx == FindBrace(s, 1)
        i == IF start_idx = 0 THEN 0 ELSE CloseAt(s, start_idx, 0)
    IN  IF start_idx = 0 \/ i = 0 THEN <<>> ELSE SubSeq(s, start_idx, i)

\* the first balanced span, parsed as it is or after the comma repair
BalancedSpan(s) ==
    IF scan_json_str(s) = <<>> THEN NoParse("balanced")
    ELSE IF json_raises(scan_json_str(s)) THEN Raised("balanced")
    ELSE IF json_loads(scan_json_str(s))
    THEN Parse("balanced", "dict", scan_json_str(s), <<>>)
    ELSE IF json_loads(RemoveTrailingCommas(scan_json_str(s)))
    THEN Parse("balanced", "dict", RemoveTrailingCommas(scan_json_str(s)), <<>>)
    ELSE NoParse("balanced")

\* r'\{[^{}]*(?:\{[^{}]*\}[^{}]*)*\}' from an opening brace: the index of the
\* closing brace of the match; 0 when the regex does not match there
RECURSIVE SalvageEnd(_, _, _)
SalvageEnd(s, i, depth) ==
    IF i > Len(s) THEN 0
    ELSE IF s[i] = "{"
    THEN IF depth = 1 THEN SalvageEnd(s, i + 1, 2) ELSE 0
    ELSE IF s[i] = "}"
    THEN IF depth = 1 THEN i ELSE SalvageEnd(s, i + 1, 1)
    ELSE SalvageEnd(s, i + 1, depth)

SalvageStarts(s) ==
    {p \in 1..Len(s) : s[p] = "{" /\ SalvageEnd(s, p + 1, 1) # 0}
SalvageMatch(s) ==
    LET p == CHOOSE a \in SalvageStarts(s) : \A b \in SalvageStarts(s) : a <= b
    IN  SubSeq(s, p, SalvageEnd(s, p + 1, 1))
SalvageRegex(s) ==
    IF SalvageStarts(s) = {} THEN NoParse("salvage")
    ELSE IF json_raises(SalvageMatch(s)) THEN Raised("salvage")
    ELSE IF json_loads(SalvageMatch(s))
    THEN Parse("salvage", "dict", SalvageMatch(s), <<>>)
    ELSE NoParse("salvage")

\* the balanced {...} spans of the text, one after the other
RECURSIVE BalancedSpans(_, _)
BalancedSpans(s, start_idx) ==
    LET obj_start == FindBrace(s, start_idx)
        i == IF obj_start = 0 THEN 0 ELSE CloseAt(s, obj_start, 0)
    IN  IF obj_start = 0 \/ i = 0 THEN <<>>
        ELSE <<SubSeq(s, obj_start, i)>> \o BalancedSpans(s, i + 1)

\* json_objects: every balanced span of the text that parses
RECURSIVE JsonObjects(_, _)
JsonObjects(s, start_idx) ==
    LET obj_start == FindBrace(s, start_idx)
        i == IF obj_start = 0 THEN 0 ELSE CloseAt(s, obj_start, 0)
        json_str == SubSeq(s, obj_start, i)
    IN  IF obj_start = 0 \/ i = 0 THEN <<>>
        ELSE (IF json_loads(json_str) THEN <<json_str>> ELSE <<>>)
                \o JsonObjects(s, i + 1)

\* all(key in obj for key in ["word", "definition", "example"]): the keys
\* of the object itself, not those of a nested object or inside a string
RECURSIVE HasTopLevelItemKeys(_, _, _, _)
HasTopLevelItemKeys(obj, i, depth, instr) ==
    IF i > Len(obj) THEN FALSE
    ELSE IF instr THEN HasTopLevelItemKeys(obj, i + 1, depth, obj[i] # "'")
    ELSE IF obj[i] = "c" THEN HasTopLevelItemKeys(obj, i + 1, depth, TRUE)
    ELSE IF obj[i] = "{" THEN HasTopLevelItemKeys(obj, i + 1, depth + 1, FALSE)
    ELSE IF obj[i] = "}" THEN HasTopLevelItemKeys(obj, i + 1, depth - 1, FALSE)
    ELSE \/ obj[i] = "v" /\ depth = 1
         \/ HasTopLevelItemKeys(obj, i + 1, depth, FALSE)

IsVocabularyItem(obj) == HasTopLevelItemKeys(obj, 1, 0, FALSE)

MultiObjects(s) ==
    LET json_objects == JsonObjects(s, 1)
        spans == BalancedSpans(s, 1)
    IN  IF \E j \in 1..Len(spans) : json_raises(spans[j])
        THEN Raised("multi")
        ELSE IF Len(json_objects) > 1
        THEN IF \A j \in 1..Len(json_objects) : IsVocabularyItem(json_objects[j])
             THEN Parse("multi", "vocabulary", <<>>, json_objects)
             ELSE Parse("multi", "items", <<>>, json_objects)
        ELSE IF Len(json_objects) = 1
        THEN Parse("multi", "dict", json_objects[1], <<>>)
        ELSE NoParse("multi")

\* len(response_text), in characters: a token counts as one character,
\* except the long run of prose and the deeply nested array
RECURSIVE CharLen(_)
CharLen(s) ==
    IF s = <<>> THEN 0
    ELSE (CASE Head(s) = "L" -> 600 [] Head(s) = "d" -> 2000 [] OTHER -> 1)
            + CharLen(Tail(s))

\* {"content": response_text, "_parse_error": ..., "_response_preview":
\* response_text[:500] if len(response_text) > 500 else response_text};
\* preview is the length of the preview
ContentFallback(s) ==
    [Parse("fallback", "content", s, <<>>) EXCEPT
        !.preview = IF CharLen(s) > 500 THEN 500 ELSE CharLen(s)]

\* a request value that is not a str: falsy (None, 0, []) or truthy (5)
NonStrings == {<<"#falsy">>, <<"#truthy">>}

\* extract_json_from_response on a token text.
\* re.search(r'\{[^{}]*"bandScore"[^{}]*\}', text, re.DOTALL): the leftmost
\* brace-free {...} that holds "bandScore"
NextBrace(s, p) ==
    LET at == {q \in (p + 1)..Len(s) : s[q] \in {"{", "}"}}
    IN  IF at = {} THEN 0 ELSE CHOOSE q \in at : \A r \in at : q <= r
BandScoreStarts(s) ==
    {p \in 1..Len(s) :
        /\ s[p] = "{"
        /\ NextBrace(s, p) # 0
        /\ s[NextBrace(s, p)] = "}"
        /\ \E j \in (p + 1)..(NextBrace(s, p) - 1) : s[j] = "b"}
BandScoreMatch(s) ==
    LET p == CHOOSE a \in BandScoreStarts(s) :
                \A c \in BandScoreStarts(s) : a <= c
    IN  SubSeq(s, p, NextBrace(s, p))

\* the three strategies; both json.loads are under a bare except
extract_json_from_response_text(s) ==
    IF BandScoreStarts(s) # {} /\ json_loads(BandScoreMatch(s))
    THEN Parse("score_object", "dict", BandScoreMatch(s), <<>>)
    ELSE IF json_loads(s)
    THEN Parse("score_whole", KindOf(s), s, <<>>)
    ELSE IF \E j \in 1..Len(s) : s[j] = "b"
    THEN Parse("score_fields", "dict", <<"{", "b", "}">>, <<>>)
    ELSE Parse("score_fields", "dict", <<"{", "}">>, <<>>)

\* the order of the strategies in the function body
NextStrategy_m(strategy) ==
    CASE strategy = "whole" -> "balanced"
      [] strategy = "balanced" -> "fenced"
      [] strategy = "fenced" -> "salvage"
      [] strategy = "salvage" -> "multi"
      [] OTHER -> "fallback"
NextStrategy(strategy) ==
    CASE strategy = "whole" -> "fenced"
      [] strategy = "fenced" -> "balanced"
      [] strategy = "balanced" -> "salvage"
      [] strategy = "salvage" -> "multi"
      [] OTHER -> "fallback"

\* a strategy returns its parse, or falls through to the next one
Return(r) ==
    IF r.ok \/ r.raised
    THEN extracted' = r /\ epc' = "done"
    ELSE epc' = NextStrategy(epc) /\ UNCHANGED extracted

\* if not response_text or not isinstance(response_text, str)
ExtractEntry ==
    /\ epc = "entry"
    /\ IF response_text = <<>> \/ response_text = <<"#falsy">>
       THEN extracted' = Parse("empty", "content", <<>>, <<>>) /\ epc' = "done"
       ELSE IF response_text = <<"#truthy">>
       THEN extracted' = Parse("empty", "content", response_text, <<>>)
            /\ epc' = "done"
       ELSE epc' = "whole" /\ UNCHANGED extracted
    /\ UNCHANGED <<response_text, hvars, svars>>

\* the score decoder, on the same text
ScoreDecode ==
    /\ epc = "entry"
    /\ response_text \notin NonStrings
    /\ extracted' = extract_json_from_response_text(response_text)
    /\ epc' = "done"
    /\ UNCHANGED <<response_text, hvars, svars>>

TryWholeText ==
    /\ epc = "whole"
    /\ Return(WholeText(response_text))
    /\ UNCHANGED <<response_text, hvars, svars>>

TryFencedBlock ==
    /\ epc = "fenced"
    /\ Return(FencedBlock(response_text))
    /\ UNCHANGED <<response_text, hvars, svars>>

TryBalancedSpan ==
    /\ epc = "balanced"
    /\ Return(BalancedSpan(response_text))
    /\ UNCHANGED <<response_text, hvars, svars>>

TrySalvageRegex ==
    /\ epc = "salvage"
    /\ Return(SalvageRegex(response_text))
    /\ UNCHANGED <<response_text, hvars, svars>>

TryMultiObjects ==
    /\ epc = "multi"
    /\ Return(MultiObjects(response_text))
    /\ UNCHANGED <<response_text, hvars, svars>>

ReturnContent ==
    /\ epc = "fallback"
    /\ extracted' = ContentFallback(response_text)
    /\ epc' = "done"
    /\ UNCHANGED <<response_text, hvars, svars>>

\* response texts: up to MaxChunks pieces, one after the other
MaxChunks == 3
Chunks ==
    { <<"x">>, <<"n">>, <<"d">>, <<"F">>, <<"{">>, <<"}">>,
      <<"{", "k", "d", "}">>,
      <<"{", "}">>,
      <<"{", "b", "}">>,
      <<"{", "v", "}">>,
      <<"{", "x", "}">>,
      <<"{", "m", ",", "}">>,
      <<"F", "{", "c", "}", "F", "'", "}", "F">>,
      <<"{", "k", "{", "m", "}", "}">>,
      <<"{", "c", "{", "m", "}", "'", "}">> }

RECURSIVE TextsOf(_)
TextsOf(n) ==
    IF n = 0 THEN {<<>>}
    ELSE LET shorter == TextsOf(n - 1)
         IN  shorter \cup {t \o c : t \in shorter, c \in Chunks}
ResponseTexts ==
    TextsOf(MaxChunks)
        \cup {<<"L">> \o t : t \in TextsOf(MaxChunks - 1)}
        \cup NonStrings

(***************************************************************************)
(* One request                                                             *)
(***************************************************************************)

VocabHandlers == {"v1_generate_vocabulary", "v2_generate_vocabulary"}
Handlers == ScoreHandlers \cup RewriteHandlers \cup VocabHandlers \cup KeyHandlers

NoExtraction == Extraction(FALSE, TRUE, EmptyDict, "none")

(***************************************************************************)
(* OllamaService: the connection check, reconnect and chat                 *)
(***************************************************************************)

MaxOps == 4

\* the fields __init__ assigns before its connection check
NewService == [client |-> "None", available |-> FALSE, error |-> "None"]

\* what a connection check meets: ollama.Client(...) raises, client.list()
\* raises, or both go through; the client is built only while it is None
CheckOutcomes(self) ==
    IF self.client = "None" THEN {"client_raises", "list_raises", "ok"}
    ELSE {"list_raises", "ok"}

\* _check_connection: the instance after it
_check_connection(self, outcome) ==
    IF outcome = "ok"
    THEN [client |-> "Client", available |-> TRUE, error |-> "None"]
    ELSE [client |-> IF outcome = "client_raises" THEN self.client ELSE "Client",
          available |-> FALSE, error |-> "str(e)"]

\* `if not self.available`, the test chat makes twice
NotAvailable_m(self) == FALSE
NotAvailable(self) == ~self.available

\* what self.client.chat does: returns a response with a message, returns
\* something else, raises "model not found", raises anything else
ChatOutcomes == {"text", "invalid", "model_not_found", "raises"}
ChatReturn(outcome) ==
    IF outcome = "text" THEN "content"
    ELSE IF outcome = "invalid" THEN "500_invalid_response"
    ELSE IF outcome = "model_not_found" THEN "404_model_not_found"
    ELSE "503_api_error"

\* no call on the service yet
NoCaller ==
    [pc |-> "idle", op |-> "none", ops |-> 0, entry |-> FALSE, rechecks |-> 0,
     rechecked |-> "none", called |-> FALSE, calledAvailable |-> FALSE,
     chat_calls |-> 0, returned |-> "none"]

\* the service is not part of the run
NoService ==
    /\ ollama_service = NewService
    /\ caller = NoCaller

\* reconnect(): one connection check, whose verdict it returns
Reconnect ==
    /\ caller.pc = "idle"
    /\ caller.ops < MaxOps
    /\ \E outcome \in CheckOutcomes(ollama_service) :
         /\ ollama_service' = _check_connection(ollama_service, outcome)
         /\ caller' = [caller EXCEPT
                !.op = "reconnect", !.ops = @ + 1,
                !.returned = IF outcome = "ok" THEN "True" ELSE "False"]
    /\ UNCHANGED <<evars, hvars>>

\* chat(), up to its second test of the flag: the re-check when the flag is off
ChatEntry ==
    /\ caller.pc = "idle"
    /\ caller.ops < MaxOps
    /\ IF NotAvailable(ollama_service)
       THEN \E outcome \in CheckOutcomes(ollama_service) :
              /\ ollama_service' = _check_connection(ollama_service, outcome)
              /\ caller' = [caller EXCEPT
                     !.pc = "gate", !.op = "chat", !.ops = @ + 1,
                     !.entry = ollama_service.available,
                     !.rechecks = 1, !.rechecked = outcome,
                     !.called = FALSE, !.returned = "none"]
       ELSE /\ UNCHANGED ollama_service
            /\ caller' = [caller EXCEPT
                   !.pc = "gate", !.op = "chat", !.ops = @ + 1,
                   !.entry = ollama_service.available,
                   !.rechecks = 0, !.rechecked = "none",
                   !.called = FALSE, !.returned = "none"]
    /\ UNCHANGED <<evars, hvars>>

\* the second test: 503 when the flag is still off, else on to the call
ChatGate ==
    /\ caller.pc = "gate"
    /\ IF NotAvailable(ollama_service)
       THEN caller' = [caller EXCEPT !.pc = "idle",
                                     !.returned = "503_not_available"]
       ELSE caller' = [caller EXCEPT !.pc = "call"]
    /\ UNCHANGED ollama_service
    /\ UNCHANGED <<evars, hvars>>

\* self.client.chat(...) and what chat makes of its outcome
ChatCall ==
    /\ caller.pc = "call"
    /\ \E outcome \in ChatOutcomes :
         caller' = [caller EXCEPT
            !.pc = "idle", !.called = TRUE,
            !.calledAvailable = ollama_service.available,
            !.chat_calls = @ + 1,
            !.returned = ChatReturn(outcome)]
    /\ UNCHANGED ollama_service
    /\ UNCHANGED <<evars, hvars>>

NoRequest ==
    /\ handler = "none"
    /\ pc = "idle"
    /\ transcription = VStr(0, 0, "t")
    /\ count = 0
    /\ attempt = 0
    /\ calls = 0
    /\ upstreamFailed = FALSE
    /\ lastVerdict = "none"
    /\ shortRetries = 0
    /\ allCorrected40 = TRUE
    /\ decoded = NoCand
    /\ decodedCall = 0
    /\ everCorrected = FALSE
    /\ sent = NoCall
    /\ result = NoKCand
    /\ response = NoResponse

\* no decoder call is under way
NoExtract ==
    /\ response_text = <<>>
    /\ epc = "idle"
    /\ extracted = NoParse("none")

Init ==
    /\ response_text = <<>>
    /\ epc = "idle"
    /\ extracted = NoParse("none")
    /\ handler \in Handlers
    /\ pc = "start"
    /\ transcription \in IF handler \in RewriteHandlers THEN Transcriptions
                         ELSE {VStr(0, 0, "t")}
    /\ count \in IF handler \in VocabHandlers THEN 0..MaxCount ELSE {0}
    /\ attempt = 0
    /\ calls = 0
    /\ upstreamFailed = FALSE
    /\ lastVerdict = "none"
    /\ shortRetries = 0
    /\ allCorrected40 = TRUE
    /\ decoded = NoCand
    /\ decodedCall = 0
    /\ everCorrected = FALSE
    /\ sent = NoCall
    /\ result = IF handler \in ScoreHandlers THEN NoExtraction
                ELSE IF handler \in RewriteHandlers THEN NoCand
                ELSE IF handler \in VocabHandlers THEN NoVCand
                ELSE NoKCand
    /\ response = NoResponse
    /\ NoService

Next ==
    \/ \E h \in ScoreHandlers : Score(h)
    \/ CG1
    \/ CG2Reject
    \/ CG2Attempt
    \/ CG2Fallback
    \/ \E h \in ImproveHandlers : Improve(h)
    \/ Voc1
    \/ Voc2Attempt
    \/ \E h \in KeyHandlers : KeyHandler(h)

Spec == Init /\ [][Next]_vars

\* one call of extract_json_from_generate_response
InitExtract ==
    /\ response_text \in ResponseTexts
    /\ epc = "entry"
    /\ extracted = NoParse("none")
    /\ NoRequest
    /\ NoService

NextExtract ==
    \/ ExtractEntry
    \/ ScoreDecode
    \/ TryWholeText
    \/ TryFencedBlock
    \/ TryBalancedSpan
    \/ TrySalvageRegex
    \/ TryMultiObjects
    \/ ReturnContent

SpecExtract == InitExtract /\ [][NextExtract]_vars

\* the instance after __init__, which ends with a connection check, and then
\* any sequence of reconnect and chat calls
InitService ==
    /\ NoExtract
    /\ NoRequest
    /\ \E outcome \in CheckOutcomes(NewService) :
         ollama_service = _check_connection(NewService, outcome)
    /\ caller = NoCaller

NextService ==
    \/ Reconnect
    \/ ChatEntry
    \/ ChatGate
    \/ ChatCall

SpecService == InitService /\ [][NextService]_vars

(***************************************************************************)
(* Claims about the handlers, checked under Spec                           *)
(***************************************************************************)

ScoreOk == handler \in ScoreHandlers /\ pc = "done" /\ response.status = "ok"

\* C1: every score of a successful score/chat response lies in [0.0, 9.0];
\* a decoded score above 9 comes back as 9.0 and one below 0 as 0.0,
\* whichever strategy of the decoder recovered it.
C1_ScoresClamped ==
    ScoreOk =>
        \A key \in NumericKeys :
            /\ ~response.scores[key].nan
            /\ response.scores[key].v >= 0
            /\ response.scores[key].v <= 90
            /\ (result.d[key].k = "num" /\ result.d[key].n > 90
                    => response.scores[key].v = 90)
            /\ (result.d[key].k = "num" /\ result.d[key].n < 0
                    => response.scores[key].v = 0)

\* a successful response that clamped 12.7 down and -3.0 up
C1_Witness ==
    /\ ScoreOk
    /\ result.strategy = "whole"
    /\ result.d["bandScore"] = SNum(127)
    /\ result.d["grammarScore"] = SNum(-30)
    /\ response.scores["bandScore"] = Float(90)
    /\ response.scores["grammarScore"] = Float(0)

\* C2: a successful score/chat response has all six keys; a key the decoder
\* did not recover has its documented default (6.5, 6.0, 6.5, 6.0, 6.5,
\* "Evaluation completed."), also when no key at all was recovered.
C2_AllKeysWithDefaults ==
    ScoreOk =>
        /\ response.keys = {"bandScore", "pronunciationScore", "grammarScore",
                            "vocabularyScore", "fluencyScore", "overallFeedback"}
        /\ (result.d["bandScore"].k = "absent"
                => response.scores["bandScore"] = Float(65))
        /\ (result.d["pronunciationScore"].k = "absent"
                => response.scores["pronunciationScore"] = Float(60))
        /\ (result.d["grammarScore"].k = "absent"
                => response.scores["grammarScore"] = Float(65))
        /\ (result.d["vocabularyScore"].k = "absent"
                => response.scores["vocabularyScore"] = Float(60))
        /\ (result.d["fluencyScore"].k = "absent"
                => response.scores["fluencyScore"] = Float(65))
        /\ (result.d["overallFeedback"].k = "absent"
                => response.feedback.k = "default")

\* the decoder recovered no key and the response is made of defaults only
C2_Witness ==
    /\ ScoreOk
    /\ result.d = EmptyDict
    /\ result.strategy = "fields"
    /\ response.scores["pronunciationScore"] = Float(60)
    /\ response.feedback.k = "default"

\* C3 as stated: at most 3 upstream calls for one request, in every handler.
C3_AtMostThreeCalls == calls <= 3

\* C3 amended: at most 3 upstream calls in every handler except v2
\* correct_grammar, which issues at most 4: the three attempts of its loop
\* and the simplified-prompt call of its post-loop length check.
C3_CallsBounded ==
    /\ handler # "v2_correct_grammar" => calls <= 3
    /\ handler = "v2_correct_grammar" =>
        /\ calls <= 4
        /\ calls = 4 => pc = "done" /\ attempt = max_retries

\* the fourth call of v2 correct_grammar
C3_Witness ==
    /\ handler = "v2_correct_grammar"
    /\ calls = 4
    /\ lastVerdict = "degraded"

\* the scenario of C4: transcription of length 200, every output so far
\* with a "corrected" of length 40, the request answered
C4_Scenario ==
    /\ handler = "v2_correct_grammar"
    /\ Strip(transcription).len = 200
    /\ calls > 0
    /\ allCorrected40
    /\ pc = "done"

\* C4 as stated: the scenario ends in an error naming both lengths.
C4_EndsInLengthError ==
    C4_Scenario =>
        response.status = "error" /\ response.detail = "incomplete_lengths"

\* C4 amended: the scenario ends, after the three attempts and the
\* simplified-prompt call, in a success response that returns the
\* transcription as the corrected text with no corrections and the
\* explanation "Unable to process corrections..."; it ends in an error only
\* when the third candidate has no "original" (the missing-fields error).
C4_EchoesOriginal ==
    C4_Scenario =>
        \/ /\ response.status = "error"
           /\ response.detail = "missing_fields"
           /\ calls = 3
           /\ ~Present(result.original)
        \/ /\ response.status = "ok"
           /\ calls = 4
           /\ response.corrected = Strip(transcription)
           /\ response.corrections = <<>>
           /\ response.explanation = Expl("unable")

C4_Witness ==
    /\ C4_Scenario
    /\ response.status = "ok"
    /\ calls = 4
    /\ response.corrected = VStr(200, 0, "t")

\* the rewritten field of a response
Rewritten ==
    IF handler \in ImproveHandlers THEN response.improved ELSE response.corrected

RewriteOk == handler \in RewriteHandlers /\ pc = "done" /\ response.status = "ok"

\* C5 as stated: no rewrite handler returns a rewritten text shorter than
\* half the request's transcription.
C5_NeverShorterThanHalfInput ==
    RewriteOk => 10 * Rewritten.len >= 5 * transcription.len

\* C5 amended: improve_sentence (v1 and v2) returns no success response
\* whose "improved" is shorter than 0.5 times the "original" of the model's
\* output when that original is longer than 100 characters; the
\* correct_grammar handlers make no such promise about the transcription.
C5_ImprovedAtLeastHalfOriginal ==
    RewriteOk /\ handler \in ImproveHandlers /\ response.original.len > 100
        => 10 * response.improved.len >= 5 * response.original.len

C5_Witness ==
    /\ RewriteOk
    /\ handler = "v1_improve_sentence"
    /\ response.original.len = 200
    /\ response.improved.len = 120

\* C6 as stated: a rewrite handler does not end on a missing field or an
\* incomplete rewrite while fewer than 3 upstream calls have been made.
C6_NoEndWhileRetriesRemain ==
    /\ handler \in RewriteHandlers
    /\ pc = "done"
    /\ response.detail \in {"missing_fields", "incomplete_lengths"}
    => calls >= 3

\* C6 amended: in v2 correct_grammar, an attempt whose "corrected" is absent,
\* empty or shorter than 0.6 times the transcription is followed by another
\* attempt whenever fewer than 3 calls have been made; the request does not
\* end there.  The other rewrite handlers make one call and never retry.
C6_RetriesWhileRemaining ==
    /\ handler = "v2_correct_grammar" /\ lastVerdict = "incomplete" /\ calls < 3
        => pc = "loop" /\ response.status = "none" /\ attempt = calls
    /\ handler \in RewriteHandlers \ {"v2_correct_grammar"} => calls <= 1

C6_Witness ==
    /\ handler = "v2_correct_grammar"
    /\ lastVerdict = "incomplete"
    /\ calls = 2
    /\ pc = "loop"
    /\ result.corrected = VStr(40, 0, "c")

\* C7 as stated: at most one retry because of a short vocabulary list.
C7_AtMostOneShortRetry ==
    handler = "v2_generate_vocabulary" => shortRetries <= 1

\* C7 amended: at most two retries are issued because of the shortfall
\* (max_retries); if the last of them is short too, the request ends with
\* that list and no further upstream call.
C7_AtMostTwoShortRetries ==
    handler = "v2_generate_vocabulary" =>
        /\ shortRetries <= 2
        /\ shortRetries = 2 => calls = 3 /\ pc = "done"

C7_Witness ==
    /\ handler = "v2_generate_vocabulary"
    /\ shortRetries = 2
    /\ lastVerdict = "short"
    /\ response.status = "ok"

\* every item of the list is one the response model accepts
WellFormed(v) == v.k = "list" /\ \A i \in 1..Len(v.items) : v.items[i] = "ok"

\* C8: when the last permitted attempt of v2 generate_vocabulary returns a
\* well-formed list with fewer items than requested, the response is a
\* success carrying exactly that list.
C8_PartialListAccepted ==
    /\ handler = "v2_generate_vocabulary"
    /\ pc = "done"
    /\ lastVerdict = "short"
    /\ WellFormed(result.vocabulary)
    => /\ response.status = "ok"
       /\ response.vocabulary = result.vocabulary.items
       /\ Len(response.vocabulary) < VocabularyCount(count)
       /\ calls = 3

C8_Witness ==
    /\ handler = "v2_generate_vocabulary"
    /\ pc = "done"
    /\ lastVerdict = "short"
    /\ count = 2
    /\ result.vocabulary = CList(<<"ok">>)
    /\ response.vocabulary = <<"ok">>

\* C9 as stated: once an upstream call has failed, no further upstream call
\* is issued for the request, in every handler.
C9_NoCallAfterFailure == [][upstreamFailed => calls' = calls]_vars

\* C9 amended: an upstream failure is propagated at once, with no further
\* upstream call, by every handler except v2 correct_grammar, whose retry
\* loop catches a failed attempt and goes on to the next one while attempts
\* remain, and whose simplified-prompt call, when it fails, is answered with
\* the transcription as the corrected text.
C9_NoCallAfterFailureOutsideGrammar ==
    [][/\ upstreamFailed /\ handler # "v2_correct_grammar" => calls' = calls
       /\ /\ handler = "v2_correct_grammar"
          /\ pc \in {"start", "loop"}
          /\ upstreamFailed'
          /\ lastVerdict' = "exception"
          /\ calls' = calls + 1
          /\ attempt < max_retries
          => pc' = "loop" /\ response' = NoResponse
       /\ /\ handler = "v2_correct_grammar"
          /\ pc = "fallback"
          /\ upstreamFailed'
          /\ lastVerdict' = "exception"
          => /\ calls' = calls + 1
             /\ pc' = "done"
             /\ response'.status = "ok"
             /\ response'.corrected = Strip(transcription)]_vars

\* an upstream failure on the second attempt of generate_vocabulary ended
\* the request
C9_Witness ==
    /\ handler = "v2_generate_vocabulary"
    /\ upstreamFailed
    /\ calls = 2
    /\ pc = "done"
    /\ response = UpstreamError


(***************************************************************************)
(* Claims about extract_json_from_generate_response, under SpecExtract     *)
(***************************************************************************)

\* the call that ended was one of the score decoder
ByScoreDecoder ==
    extracted.strategy \in {"score_object", "score_whole", "score_fields"}

Extracted == epc = "done" /\ response_text # <<>> /\ ~ByScoreDecoder

\* C10: the strategies are tried in the order whole text, fenced block,
\* first balanced span (with the trailing-comma repair), salvage regex; the
\* function returns the parse of the first of them that parses the text, and
\* a later strategy's parse only when every earlier one failed on that text.
C10_FirstParseWins ==
    Extracted =>
        LET w == WholeText(response_text)
            f == FencedBlock(response_text)
            b == BalancedSpan(response_text)
            g == SalvageRegex(response_text)
        IN  /\ w.ok => extracted = w
            /\ ~w.ok /\ f.ok => extracted = f
            /\ ~w.ok /\ ~f.ok /\ b.ok => extracted = b
            /\ ~w.ok /\ ~f.ok /\ ~b.ok /\ g.ok => extracted = g
            /\ extracted.strategy = "fenced" => ~w.ok
            /\ extracted.strategy = "balanced" => ~w.ok /\ ~f.ok
            /\ extracted.strategy = "salvage" => ~w.ok /\ ~f.ok /\ ~b.ok
            /\ extracted.strategy \in {"multi", "fallback"}
                    => ~w.ok /\ ~f.ok /\ ~b.ok /\ ~g.ok

\* the JSON objects the text wraps in a fenced block
FencedObjects(s) ==
    {SubSeq(s, pq[1] + 1, pq[2] - 1) :
        pq \in {ab \in (1..Len(s)) \X (1..Len(s)) :
                   /\ ab[1] < ab[2]
                   /\ s[ab[1]] = "F"
                   /\ s[ab[2]] = "F"
                   /\ json_loads(SubSeq(s, ab[1] + 1, ab[2] - 1))
                   /\ IsDict(SubSeq(s, ab[1] + 1, ab[2] - 1))}}

\* C11: for a text that wraps a valid JSON object in a fenced block and is
\* not itself valid JSON, the function returns the parse of the fenced
\* interior, whatever surrounds the fence.
C11_FencedInteriorReturned ==
    /\ Extracted
    /\ ~json_loads(response_text)
    /\ FencedObjects(response_text) # {}
    => /\ extracted.kind = "dict"
       /\ extracted.value \in FencedObjects(response_text)

AllVocabularyItems(spans) ==
    \A j \in 1..Len(spans) :
        /\ json_loads(spans[j])
        /\ IsVocabularyItem(spans[j])

\* C12: for a text with two or more balanced spans that all decode to objects
\* with the keys word, definition and example, the function returns
\* {"vocabulary": [the decoded objects, in text order]}, not the first object
\* alone.
C12_AllItemsCollected ==
    /\ Extracted
    /\ Len(BalancedSpans(response_text, 1)) >= 2
    /\ AllVocabularyItems(BalancedSpans(response_text, 1))
    => /\ extracted.kind = "vocabulary"
       /\ extracted.items = BalancedSpans(response_text, 1)

NoStrategyParses(s) ==
    /\ ~WholeText(s).ok
    /\ ~FencedBlock(s).ok
    /\ ~BalancedSpan(s).ok
    /\ ~SalvageRegex(s).ok
    /\ ~MultiObjects(s).ok

\* C13: the function never fails: it returns a value for every input, and
\* when no strategy yields a parse it returns the object whose content is the
\* whole text, with the parse-error marker and a preview that is the prefix
\* of the text of length min(500, length of the text).
C13_NeverFails ==
    epc = "done" /\ ~ByScoreDecoder =>
        /\ ~extracted.raised
        /\ extracted.ok
        /\ response_text \notin NonStrings \cup {<<>>}
                /\ NoStrategyParses(response_text)
            => /\ extracted.strategy = "fallback"
               /\ extracted.kind = "content"
               /\ extracted.value = response_text
               /\ extracted.preview =
                    IF CharLen(response_text) <= 500
                    THEN CharLen(response_text) ELSE 500

\* the text is a valid JSON object
ValidObject(s) == json_loads(s) /\ IsDict(s)

\* an object of a generation task's schema: no task's schema is the wrapper
\* {"content": "<string>"}
GenerateSchemaObject(s) == ValidObject(s) /\ ~IsContentOnly(s)

\* an object of the score schema: numbers and one feedback string, no nested
\* object
ScoreSchemaObject(s) ==
    /\ ValidObject(s)
    /\ \A j \in 2..(Len(s) - 1) : s[j] \notin {"{", "}"}

\* C14: for a text that is a valid JSON object matching the task's schema,
\* the decoder returns that object unchanged: same keys, same values, none
\* added, removed or replaced by a nested object.  It holds of
\* extract_json_from_generate_response and of extract_json_from_response.
C14_SchemaObjectUnchanged ==
    epc = "done" =>
        /\ ~ByScoreDecoder /\ GenerateSchemaObject(response_text) =>
            /\ extracted.strategy = "whole"
            /\ extracted.kind = "dict"
            /\ extracted.value = response_text
        /\ ByScoreDecoder /\ ScoreSchemaObject(response_text) =>
            /\ extracted.kind = "dict"
            /\ extracted.value = response_text

\* an object holding a nested object came back whole
C14_Witness ==
    /\ epc = "done"
    /\ ~ByScoreDecoder
    /\ response_text = <<"{", "k", "{", "m", "}", "}">>
    /\ extracted.value = response_text

\* opening braces minus closing braces in s[a..b]
Depth(s, a, b) ==
    Cardinality({j \in a..b : s[j] = "{"})
        - Cardinality({j \in a..b : s[j] = "}"})

\* s[p..q] is a balanced {...} span and no brace lies outside it
SpanInProse(s, p, q) ==
    /\ p < q /\ s[p] = "{" /\ s[q] = "}"
    /\ \A j \in 1..Len(s) : s[j] \in {"{", "}"} => p <= j /\ j <= q
    /\ Depth(s, p, q) = 0
    /\ \A r \in p..(q - 1) : Depth(s, p, r) > 0

\* C15: in a text that holds exactly one balanced {...} span, nested braces
\* allowed, with brace-free prose around it, the balanced scan selects that
\* span from its opening brace to the matching closing brace; what the scan
\* returns is the parse of that span, as it is or after the comma repair.
C15_ScanSelectsTheSpan ==
    \A p, q \in 1..Len(response_text) :
        response_text \notin NonStrings /\ SpanInProse(response_text, p, q) =>
            /\ scan_json_str(response_text) = SubSeq(response_text, p, q)
            /\ epc = "done" /\ extracted.ok /\ extracted.strategy = "balanced" =>
                extracted.value \in
                    {SubSeq(response_text, p, q),
                     RemoveTrailingCommas(SubSeq(response_text, p, q))}

\* the scan returned a span with a nested object from between two proses
C15_Witness ==
    /\ epc = "done"
    /\ extracted.strategy = "balanced"
    /\ response_text = <<"x", "{", "k", "{", "m", "}", "}", "x">>
    /\ extracted.value = <<"{", "k", "{", "m", "}", "}">>

\* a generate_answers request ended with a success response
AnswersReturned ==
    /\ pc = "done"
    /\ handler \in AnswersHandlers
    /\ response.status = "ok"

\* C16: in generate_answers (v1 and v2) the value of sampleAnswer or
\* sample_answer is copied into "answer" only if the candidate has no
\* "answer": an "answer" of the candidate is never overwritten, and with both
\* synonyms and no "answer" the value of sampleAnswer is the one copied.
C16_SynonymOnlyIfAbsent ==
    AnswersReturned =>
        /\ "answer" \in result.keys => response.answer = "answer"
        /\ "answer" \notin result.keys /\ "sampleAnswer" \in result.keys
            => response.answer = "sampleAnswer"
        /\ response.answer = "sample_answer"
            => /\ "sample_answer" \in result.keys
               /\ {"answer", "sampleAnswer"} \cap result.keys = {}

\* both synonyms and no "answer": the value of sampleAnswer was returned
C16_Witness ==
    /\ AnswersReturned
    /\ {"sampleAnswer", "sample_answer"} \subseteq result.keys
    /\ "answer" \notin result.keys
    /\ response.answer = "sampleAnswer"

\* a request of a handler that checks the candidate's keys ended with a
\* success response built from a dict candidate
KeysReturned ==
    /\ pc = "done"
    /\ handler \in KeyHandlers
    /\ response.status = "ok"
    /\ result.shape = "dict"

\* C17 as stated: the keys of the decoded candidate that the schema does not
\* name are preserved in what the handler returns; the result of
\* generate_answers still carries the candidate's other keys next to "answer".
C17_ExtraKeysPreserved ==
    KeysReturned => result.keys \subseteq response.keys

\* C17 amended: only the free-form generate handlers return the candidate
\* with every key it has.  v2 generate_answers returns "answer" alone, and
\* the handlers that build a response model return the fields of that model
\* and no other key of the candidate.
C17_OnlySchemaKeysReturned ==
    KeysReturned =>
        /\ handler \in {"v1_generate", "v2_generate"}
            => response.keys = result.keys
        /\ handler = "v2_generate_answers" => response.keys = {"answer"}
        /\ handler = "v1_generate_answers"
            => response.keys = {"answer", "vocabulary", "structures", "keyPoints"}
        /\ handler \notin {"v1_generate", "v2_generate"} \cup AnswersHandlers
            => response.keys = RequiredKeys(handler)
        /\ handler \notin {"v1_generate", "v2_generate"}
            => "extra" \notin response.keys

\* v2 generate_answers answered with "answer" alone although the candidate
\* had vocabulary and a key the schema does not name
C17_Witness ==
    /\ KeysReturned
    /\ handler = "v2_generate_answers"
    /\ {"answer", "vocabulary", "extra"} \subseteq result.keys
    /\ response.keys = {"answer"}

\* a generate_vocabulary request ended on a candidate that is one vocabulary
\* item at top level: word, definition and example, values the response
\* model accepts, and no "vocabulary" key
BareItemUsed ==
    /\ pc = "done"
    /\ handler \in {"v1_generate_vocabulary", "v2_generate_vocabulary"}
    /\ ~upstreamFailed
    /\ result.shape = "dict"
    /\ ~Present(result.vocabulary)
    /\ result.top = "ok"

\* C18 as stated: in generate_vocabulary (v1 and v2), when the candidate used
\* for the response is a single vocabulary item at top level, the handler
\* returns the success response {"vocabulary": [that item]}, not an error.
C18_BareItemWrapped ==
    BareItemUsed =>
        /\ response.status = "ok"
        /\ response.vocabulary = <<result.top>>

\* C18 amended: v2 generate_vocabulary wraps such a candidate and returns
\* {"vocabulary": [that item]}; v1 generate_vocabulary does not, and answers
\* 500 for the missing "vocabulary" field.
C18_BareItemWrappedInV2Only ==
    BareItemUsed =>
        /\ handler = "v2_generate_vocabulary" =>
            /\ response.status = "ok"
            /\ response.keys = {"vocabulary"}
            /\ response.vocabulary = <<result.top>>
        /\ handler = "v1_generate_vocabulary" =>
            response = HTTPError(500, "missing_vocabulary")

\* v2 returned the bare item of its last attempt wrapped in a list
C18_Witness ==
    /\ BareItemUsed
    /\ handler = "v2_generate_vocabulary"
    /\ attempt = max_retries
    /\ response.status = "ok"
    /\ response.vocabulary = <<"ok">>

\* a v2 correct_grammar request ended with a success response
GrammarReturned ==
    /\ pc = "done"
    /\ handler = "v2_correct_grammar"
    /\ response.status = "ok"

\* the candidate that reached step 6 lists corrections and its explanation
\* says "no correction"
Contradiction(r) ==
    /\ r.shape = "dict"
    /\ r.corrections.k = "list"
    /\ Len(r.corrections.items) > 0
    /\ IsStr(r.explanation)
    /\ ContainsNoCorrection(r.explanation)

\* C19: in every successful v2 correct_grammar response, a non-empty
\* corrections list goes with an explanation that does not contain
\* "no correction"; a candidate with that contradiction has its explanation
\* rewritten to state the correction count.
C19_NoCorrectionOnlyWithoutCorrections ==
    GrammarReturned =>
        /\ Len(response.corrections) > 0
            => ~ContainsNoCorrection(response.explanation)
        /\ Contradiction(result) /\ result.original # result.corrected =>
            /\ response.explanation = Expl("made_n_style")
            /\ response.corrections = result.corrections.items

\* a candidate with the contradiction was answered with its corrections and
\* the rewritten explanation
C19_Witness ==
    /\ GrammarReturned
    /\ Contradiction(result)
    /\ Len(response.corrections) > 0
    /\ response.explanation = Expl("made_n_style")

\* C20: in every successful v2 correct_grammar response, if the returned
\* "original" and "corrected" are identical then the returned corrections
\* list is empty, on every path, the adopted fallback and the final defaults
\* included.
C20_IdenticalTextsNoCorrections ==
    GrammarReturned /\ response.original = response.corrected
        => response.corrections = <<>>

\* a non-empty string
NonEmptyStr(v) == IsStr(v) /\ v.len > 0

\* C21: every successful v2 correct_grammar response has the four keys with
\* conforming values: "original" and "corrected" non-empty strings,
\* "corrections" a list, "explanation" a non-empty string, whatever the
\* upstream answered.
C21_FourKeysConform ==
    GrammarReturned =>
        /\ response.keys = {"original", "corrected", "corrections", "explanation"}
        /\ NonEmptyStr(response.original)
        /\ NonEmptyStr(response.corrected)
        /\ response.corrections \in Seq(CorrectionKinds \ {"nondict"})
        /\ NonEmptyStr(response.explanation)

\* the candidate's "corrected" was blank and the response carries the
\* transcription in its place
C21_Witness ==
    /\ GrammarReturned
    /\ IsStr(result.corrected) /\ result.corrected.len = 0
    /\ response.corrected = Strip(transcription)

\* the retry loop of v2 correct_grammar ended on a decoded candidate
LoopEnded ==
    /\ handler = "v2_correct_grammar"
    /\ pc \in {"done", "fallback"}
    /\ lastVerdict \in {"complete", "incomplete"}

\* C22 as stated: in v2 correct_grammar a required key that is absent or null
\* counts as missing: when every attempt's candidate has "corrected" absent
\* or null, the request ends in the error that lists the missing field,
\* never in a success response.
C22_NullCountsAsMissing ==
    LoopEnded /\ pc = "done" /\ ~upstreamFailed /\ ~everCorrected
        => response.detail = "missing_fields"

\* C22 amended: only an absent key counts as missing.  When the candidate of
\* the last attempt lacks "original" or "corrected" the request ends in the
\* 500 error that lists the missing fields; a null "corrected" is present:
\* it is replaced by the transcription, and a request that needs no
\* simplified-prompt call then ends in a success response that returns the
\* transcription as the corrected text.
C22_OnlyAbsentIsMissing ==
    LoopEnded =>
        /\ MissingFields(decoded) # {} <=>
            pc = "done" /\ response = HTTPError(500, "missing_fields")
        /\ decoded.corrected = VNull /\ Present(decoded.original) =>
            /\ result.corrected = Strip(transcription)
            /\ pc = "done" =>
                /\ response.status = "ok"
                /\ response.corrected = Strip(transcription)

\* three attempts with a null "corrected", then a success response
C22_Witness ==
    /\ LoopEnded
    /\ pc = "done"
    /\ calls = 3
    /\ ~upstreamFailed
    /\ ~everCorrected
    /\ decoded.corrected = VNull
    /\ response.status = "ok"
    /\ response.corrected = Strip(transcription)

\* C23: finalization of a score result never fails: whatever
\* extract_json_from_response returned, the score and chat handlers answer
\* with a success response, defaults substituted, not with an error.
C23_ScoreNeverFails ==
    /\ handler \in ScoreHandlers
    /\ pc = "done"
    /\ ~upstreamFailed
    /\ ~result.raised
    => response.status = "ok"

\* C24: every value extract_json_from_generate_response returns is a JSON
\* object (a mapping from string keys to values): for no text does it return
\* a list, a string, a number, a boolean or null.
C24_AlwaysAnObject ==
    epc = "done" /\ ~ByScoreDecoder /\ ~extracted.raised
        => extracted.kind \in {"dict", "vocabulary", "items", "content"}

\* the retry loop has just judged the decoded candidate complete
JudgedComplete == LoopEnded /\ lastVerdict = "complete"

\* the text returned for a "corrected" value: stripped, and the transcription
\* in place of an empty text
ReturnedFor(v) ==
    IF Strip(v).len = 0 THEN Strip(transcription) ELSE Strip(v)

RetryAfterIncomplete ==
    /\ handler = "v2_correct_grammar"
    /\ pc = "loop"
    /\ lastVerdict = "incomplete"
    /\ calls' = calls + 1

\* C26 as stated: a retry issued after a length-incomplete attempt uses an
\* output-token budget strictly larger than the preceding attempt's, unless
\* the budget is at its cap, and a temperature higher than the first
\* attempt's.
C26_RetryRaisesBudget ==
    [][RetryAfterIncomplete =>
        /\ \/ sent'.max_output_tokens > sent.max_output_tokens
           \/ sent.max_output_tokens = 8192
        /\ sent'.temperature > 2]_vars

\* C26 amended: every call of the retry loop uses the same output-token
\* budget, computed once from the transcription's length (3.5 tokens per
\* character, at least 3072 and at most 8192); a retry differs from the first
\* attempt in its temperature, 0.3 instead of 0.2, and in its prompt.
C26_RetryKeepsBudget ==
    [][/\ handler = "v2_correct_grammar" /\ pc \in {"start", "loop"}
          /\ calls' = calls + 1
          => /\ sent'.temperature = IF calls = 0 THEN 2 ELSE 3
             /\ Strip(transcription).len = 20 => sent'.max_output_tokens = 3072
             /\ Strip(transcription).len = 1000 => sent'.max_output_tokens = 3500
             /\ Strip(transcription).len = 3000 => sent'.max_output_tokens = 8192
       /\ RetryAfterIncomplete
          => sent'.max_output_tokens = sent.max_output_tokens]_vars

\* the third attempt on a transcription of 1000 characters went out with
\* temperature 0.3 and the budget of 3500 tokens
C26_Witness ==
    /\ handler = "v2_correct_grammar"
    /\ calls = 3
    /\ lastVerdict = "incomplete"
    /\ sent = Sent(3, 3500)

\* the retry loop of v2 generate_vocabulary ended on a decoded candidate
VocLoopEnded ==
    /\ handler = "v2_generate_vocabulary"
    /\ pc = "done"
    /\ lastVerdict \in {"missing", "short", "complete"}

\* C27: in the retry loops of v2 correct_grammar and v2 generate_vocabulary
\* the candidate used after the loop is the one decoded from the most recently
\* issued upstream call, nothing of an earlier candidate is left in it, and a
\* call is issued only after the previous call has returned and its candidate
\* has been checked (one attempt counted per call).
C27_LatestCandidateUsed ==
    /\ LoopEnded =>
        /\ decodedCall = calls
        /\ result = CG2AfterLoop(decoded, Strip(transcription)).result
        /\ response = CG2AfterLoop(decoded, Strip(transcription)).response
    /\ VocLoopEnded =>
        /\ decodedCall = calls
        /\ result = decoded
        /\ response = Voc2AfterLoop(decoded)
    /\ handler \in {"v2_correct_grammar", "v2_generate_vocabulary"}
       /\ pc = "loop"
       => /\ calls = attempt
          /\ lastVerdict # "none"
          /\ decodedCall <= calls

\* the third attempt's candidate differs from the second attempt's and is the
\* one the code after the loop works on, in either handler
C27_Witness ==
    /\ calls = 3
    /\ decodedCall = 3
    /\ \/ LoopEnded /\ lastVerdict = "incomplete"
          /\ decoded.corrected = VStr(98, 0, "c")
          /\ response.status = "ok"
       \/ VocLoopEnded /\ lastVerdict = "short"
          /\ decoded.vocabulary = CList(<<"ok">>)
          /\ response.status = "ok"

\* C28: in every successful v2 correct_grammar response every element of
\* the corrections list is a record with exactly the keys original, corrected
\* and reason, each a string, on every path, the adopted candidate of the
\* simplified-prompt fallback call included.
C28_CorrectionsWellFormed ==
    GrammarReturned =>
        \A i \in 1..Len(response.corrections) : response.corrections[i] = "full"

\* the transcription of the request is empty or made of whitespace only
BlankTranscription == transcription.len = transcription.pad

\* C29: v2 correct_grammar rejects a transcription that is empty or only
\* whitespace with a 400 error before any upstream generation call: no
\* upstream call is ever made for such a request, and the response it ends
\* with is the 400 error.
C29_BlankRejectedBeforeAnyCall ==
    handler = "v2_correct_grammar" /\ BlankTranscription =>
        /\ calls = 0
        /\ sent = NoCall
        /\ pc \in {"start", "done"}
        /\ pc = "done" => response = HTTPError(400, "empty_transcription")

\* a transcription of two blanks was answered with the 400 error, no call made
C29_Witness ==
    /\ handler = "v2_correct_grammar"
    /\ transcription = VStr(2, 2, "t")
    /\ pc = "done"
    /\ response.code = 400
    /\ calls = 0

\* C30: OllamaService.chat issues the upstream chat call only in a state
\* where `available` is True: with the flag off at entry it makes exactly one
\* connection re-check, goes on to the upstream call if that succeeds, and
\* otherwise returns the 503 error without an upstream chat call, whatever
\* sequence of chat and reconnect calls came before.
C30_ChatOnlyWhenAvailable ==
    /\ caller.pc = "call" =>
        ollama_service.available /\ ollama_service.client = "Client"
    /\ caller.called => caller.calledAvailable
    /\ caller.op = "chat" =>
        /\ caller.rechecks = IF caller.entry THEN 0 ELSE 1
        /\ caller.pc = "idle" =>
            /\ caller.entry => caller.called
            /\ ~caller.entry /\ caller.rechecked = "ok" => caller.called
            /\ ~caller.entry /\ caller.rechecked # "ok" =>
                ~caller.called /\ caller.returned = "503_not_available"
            /\ (caller.returned = "503_not_available") = ~caller.called
    /\ caller.chat_calls <= caller.ops

\* after a failed reconnect, a chat call found the flag off, re-checked once
\* with success and got its text from the upstream call
C30_Witness ==
    /\ caller.op = "chat"
    /\ caller.pc = "idle"
    /\ caller.ops >= 2
    /\ ~caller.entry
    /\ caller.rechecks = 1
    /\ caller.called
    /\ caller.returned = "content"

====
